---- MODULE Spec2Model ----
(***************************************************************************)
(* A model of pgen, the parser generator: the translation pipeline from    *)
(* specification text to emitted parser code.                              *)
(*                                                                         *)
(* Text is a sequence of one-character strings.  Offsets are Go's 0-based  *)
(* byte offsets; the character at offset o is text[o + 1].                 *)
(***************************************************************************)
EXTENDS Integers, Sequences, FiniteSets, TLC

VARIABLES
    lines,      \* stage 1: how the input text was composed, one kind per line
    input,      \* stage 1: the spec text handed to RunStage1
    s1,         \* stage 1: the Stage1 struct after RunStage1
    pc,         \* Run: the call Run makes next
    stagesRun,  \* Run: the stages run so far, in order
    s2Error,    \* Run: the error bag of stage 2
    s3Error,    \* Run: the error bags of the stages 3.1, 3.2 and 3.3
    s4,         \* Run: the error bag and the text of stage 4
    ret,        \* Run: what Run returned
    lang,       \* stage 2: the models.Language being filled
    heap,       \* stage 2: the rule-tree nodes allocated so far, by address
    parsed,     \* stage 2: the rule trees as the DSL parsers returned them
    bp,         \* stage 2: the BaseParser of a DSL parser, and its marks
    cls,        \* stage 3.2: the classification of the choices of each rule
    tk,         \* emitted tokenizer: its fields, and what op() returned
    out,        \* generator: what is emitted; util: the results of the calls
    ast,        \* emitted parser: the calls of a node constructor
    ps          \* emitted parser: its fields, and the calls of its functions

splitVars == <<lines, input, s1>>

runVars == <<pc, stagesRun, s2Error, s3Error, s4, ret>>

langVars == <<lang, heap, parsed, bp>>

emitVars == <<cls, tk, out, ast, ps>>

backVars == <<langVars, emitVars>>

vars == <<splitVars, runVars, backVars>>

----------------------------------------------------------------------------
(* Helpers on sequences and sets.                                          *)

Min(S) == CHOOSE x \in S : \A y \in S : x <= y

Max(S) == CHOOSE x \in S : \A y \in S : x >= y

Repeat(c, n) == [i \in 1..n |-> c]

\* F on the value of v, v being evaluated once
With(v, F(_)) == CHOOSE y \in {F(x) : x \in {v}} : TRUE

RECURSIVE Concat(_)
Concat(ss) ==
    With(ss, LAMBDA v : IF v = <<>> THEN <<>> ELSE Head(v) \o Concat(Tail(v)))

Elems(s) == With(s, LAMBDA v : {v[k] : k \in DOMAIN v})

----------------------------------------------------------------------------
(* models.Position and models.Snippet                                      *)

NL == "\n"

NewPosition(offset, lineIdx, charIdx) ==
    [Offset |-> offset, LineIdx |-> lineIdx, CharIdx |-> charIdx]

\* strings.Count(text, "\n")
CountNL(text) == Cardinality({i \in 1..Len(text) : text[i] = NL})

\* strings.LastIndex(text, "\n"), as a 0-based offset (-1 when absent)
LastIndexNL(text) ==
    LET nls == {i \in 1..Len(text) : text[i] = NL}
    IN  IF nls = {} THEN -1 ELSE Max(nls) - 1

\* the mutant of MoveForward: the character index counts the newline
MoveForwardWithNL(p, text) ==
    LET lineCount == CountNL(text)
        charIdx == IF lineCount = 0 THEN p.CharIdx + Len(text)
                   ELSE Len(text) - LastIndexNL(text)
    IN  NewPosition(p.Offset + Len(text), p.LineIdx + lineCount, charIdx)

\* Position.MoveForward
MoveForward(p, text) ==
    LET lineCount == CountNL(text)
        charIdx == IF lineCount = 0 THEN p.CharIdx + Len(text)
                   ELSE Len(text) - LastIndexNL(text) - 1
    IN  NewPosition(p.Offset + Len(text), p.LineIdx + lineCount, charIdx)

\* A snippet is a range of the file content; Fork keeps the content.
Fork(start, end) == [Start |-> start, End |-> end]

\* Snippet.Text(): FileContent[Start.Offset:End.Offset]
Text(content, sn) == SubSeq(content, sn.Start.Offset + 1, sn.End.Offset)

NewSnippet(content) ==
    Fork(NewPosition(0, 0, 0),
         NewPosition(Len(content), CountNL(content),
                     Len(content) - LastIndexNL(content)))

----------------------------------------------------------------------------
(* models.Error: a list of errors and the joined error, built once         *)

NilError == [nil |-> TRUE, msg |-> <<>>]

NewError == [errors |-> <<>>, toErr |-> NilError]

AddError(e, err) == [e EXCEPT !.errors = Append(@, err)]

Errors(e) == e.errors

\* errors.New(sb.String()): every error printed with "%v\n"
JoinedError(errors) ==
    [nil |-> FALSE, msg |-> [i \in 1..Len(errors) |-> <<errors[i], NL>>]]

\* the Error after a call of ToError: the joined error is kept in toErr
ToErrorState(e) ==
    IF ~e.toErr.nil \/ e.errors = <<>> THEN e
    ELSE [e EXCEPT !.toErr = JoinedError(e.errors)]

\* the value a call of ToError returns
ToError(e) == ToErrorState(e).toErr

----------------------------------------------------------------------------
(* Stage 1: split into snippets                                            *)

DividerLen == 120

SectionCount == 6

\* strings.Repeat("-", 120) + "\n"
Divider == Repeat("-", DividerLen) \o <<NL>>

\* sep occurs in t at index i (the last character is compared first)
HasAt(t, sep, i) ==
    /\ i + Len(sep) - 1 <= Len(t)
    /\ t[i + Len(sep) - 1] = sep[Len(sep)]
    /\ \A k \in 1..(Len(sep) - 1) : t[i + k - 1] = sep[k]

\* strings.Split(t, sep) for a non-empty sep: cut at the leftmost
\* occurrence, then go on after it.
RECURSIVE SplitFrom(_, _, _)
SplitFrom(t, sep, from) ==
    LET occ == {i \in from..(Len(t) - Len(sep) + 1) : HasAt(t, sep, i)}
    IN  IF occ = {} THEN <<SubSeq(t, from, Len(t))>>
        ELSE <<SubSeq(t, from, Min(occ) - 1)>>
                 \o SplitFrom(t, sep, Min(occ) + Len(sep))

Split(t, sep) == SplitFrom(t, sep, 1)

RECURSIVE ForkParts(_, _, _)
\* the loop of getSections: one snippet per part, the divider skipped
ForkParts(parts, start, skip) ==
    IF parts = <<>> THEN <<>>
    ELSE LET end == MoveForward(start, Head(parts))
         IN  <<Fork(start, end)>>
                 \o ForkParts(Tail(parts), MoveForward(end, skip), skip)

getSections(content, snippet) ==
    ForkParts(Split(Text(content, snippet), Divider), snippet.Start, Divider)

\* \s of Go's regexp, on the characters of the model
IsSpace(c) == c \in {" ", NL, "\t"}

\* index of the first "\n" at or after from, Len(t) + 1 when there is none
NextNL(t, from) ==
    LET s == {i \in from..Len(t) : t[i] = NL}
    IN  IF s = {} THEN Len(t) + 1 ELSE Min(s)

\* index of the first character other than "\n" at or after from
SkipNL(t, from) ==
    LET s == {i \in from..Len(t) : t[i] # NL}
    IN  IF s = {} THEN Len(t) + 1 ELSE Min(s)

RECURSIVE ContinuationEnd(_, _)
\* (?:\n +[^\n]*)* from the end q of a line
ContinuationEnd(t, q) ==
    IF q + 1 <= Len(t) /\ t[q] = NL /\ t[q + 1] = " "
    THEN ContinuationEnd(t, NextNL(t, q + 1))
    ELSE q

\* (?s)(\s*\S[^\n]*(?:\n +[^\n]*)*\n*) matched at index s: the index after
\* the match, 0 when there is no match at s.
RuleMatchEnd(t, s) ==
    LET nonws == {i \in s..Len(t) : ~IsSpace(t[i])}
    IN  IF nonws = {} THEN 0
        ELSE SkipNL(t, ContinuationEnd(t, NextNL(t, Min(nonws))))

\* (?s)(\s*[^\n]+\n+) matched at index s: \s* takes the longest run of
\* white space after which a non-newline character and a later newline follow.
SimpleMatchEnd(t, s) ==
    LET cands == {p \in s..Len(t) :
                     /\ t[p] # NL
                     /\ \A k \in s..(p - 1) : IsSpace(t[k])
                     /\ NextNL(t, p) <= Len(t)}
    IN  IF cands = {} THEN 0 ELSE SkipNL(t, NextNL(t, Max(cands)))

MatchEnd(pattern, t, s) ==
    IF pattern = "rule" THEN RuleMatchEnd(t, s) ELSE SimpleMatchEnd(t, s)

RECURSIVE FindAll(_, _, _)
\* re.FindAllStringSubmatch(t, -1): the leftmost match at or after from,
\* then the next one after its end; item[1] is the whole match.
FindAll(pattern, t, from) ==
    LET starts == {s \in from..Len(t) : MatchEnd(pattern, t, s) # 0}
    IN  IF starts = {} THEN <<>>
        ELSE LET s == Min(starts)
                 e == MatchEnd(pattern, t, s)
             IN  <<SubSeq(t, s, e - 1)>> \o FindAll(pattern, t, e)

\* an error of the stage-1 bag
PartsError(got) == [kind |-> "parts", expected |-> SectionCount, got |-> got]

\* an error that carries only its kind
ErrorOf(kind) == [kind |-> kind, expected |-> 0, got |-> 0]

PatternError(pattern) == ErrorOf(pattern)

\* getSnippets: the snippets of the matches, and the error it records
getSnippets(content, snippet, pattern) ==
    LET parts == FindAll(pattern, Text(content, snippet), 1)
    IN  [ret |-> ForkParts(parts, snippet.Start, <<>>),
         err |-> IF Concat(parts) # Text(content, snippet)
                 THEN <<PatternError(pattern)>> ELSE <<>>]

ruleSplit(content, snippet) == getSnippets(content, snippet, "rule")

simpleSplit(content, snippet) == getSnippets(content, snippet, "simple")

\* a slice field of Stage1: nil until run() assigns it
NilSlice == [nil |-> TRUE, items |-> <<>>]

Slice(items) == [nil |-> FALSE, items |-> items]

\* Stage1 as RunStage1 builds it, before run()
NewStage1(content) ==
    [ran |-> FALSE, Input |-> NewSnippet(content), sections |-> <<>>,
     Tokens |-> NilSlice, Keywords |-> NilSlice, Operators |-> NilSlice,
     Nodes |-> NilSlice, Grammars |-> NilSlice, Hack |-> NilSlice,
     Error |-> NewError]

\* the mutant of WrongSectionCount: only too few sections are refused
WrongSectionCountTooFew(n) == n < SectionCount

\* if len(sections) != SectionCount
WrongSectionCount(n) == n # SectionCount

\* RunStage1 and Stage1.run
Stage1Run(content) ==
    LET st == NewStage1(content)
        sections == getSections(content, st.Input)
    IN  IF WrongSectionCount(Len(sections))
        THEN [st EXCEPT !.ran = TRUE, !.sections = sections,
                        !.Error = AddError(@, PartsError(Len(sections)))]
        ELSE LET tokens == ruleSplit(content, sections[1])
                 keywords == simpleSplit(content, sections[2])
                 operators == simpleSplit(content, sections[3])
                 nodes == simpleSplit(content, sections[4])
                 grammars == ruleSplit(content, sections[5])
             IN  [st EXCEPT !.ran = TRUE, !.sections = sections,
                     !.Tokens = Slice(tokens.ret),
                     !.Keywords = Slice(keywords.ret),
                     !.Operators = Slice(operators.ret),
                     !.Nodes = Slice(nodes.ret),
                     !.Grammars = Slice(grammars.ret),
                     !.Hack = Slice(<<sections[6]>>),
                     !.Error.errors = tokens.err \o keywords.err
                         \o operators.err \o nodes.err \o grammars.err]

----------------------------------------------------------------------------
(* The spec texts of the stage-1 model: lines of these kinds.              *)

MaxDividerLines == 7

MaxOtherLines == 1

OtherKinds == {"long", "pre", "short", "txt", "blank"}

\* the characters of a line of each kind, the newline included
LineText(kind) ==
    CASE kind = "div"   -> Divider
      [] kind = "long"  -> <<"-">> \o Divider
      [] kind = "pre"   -> <<"a">> \o Divider
      [] kind = "short" -> Repeat("-", DividerLen - 1) \o <<NL>>
      [] kind = "txt"   -> <<"a", NL>>
      [] OTHER          -> <<NL>>

CountKind(ls, kinds) == Cardinality({i \in 1..Len(ls) : ls[i] \in kinds})

\* Run has returned nothing yet
NoReturn == [returned |-> FALSE, output |-> <<>>, err |-> NilError]

Return(output, err) == [returned |-> TRUE, output |-> output, err |-> err]

\* models.NewLanguage: empty lists and empty maps (a map is a function)
NewLanguage ==
    [keywords |-> <<>>, keywordMap |-> {}, operators |-> <<>>,
     operatorMap |-> <<>>, tokenRules |-> <<>>, astNodes |-> <<>>,
     grammarRules |-> <<>>, memoIdMap |-> <<>>]

\* no tokenizer has been constructed
NoTokenizer == [made |-> FALSE]

\* Run has not been called: the front of the pipeline at rest
InitFront ==
    /\ lines = <<>>
    /\ input = <<>>
    /\ s1 = NewStage1(<<>>)
    /\ pc = "s1"
    /\ stagesRun = <<>>
    /\ s2Error = NewError
    /\ s3Error = <<NewError, NewError, NewError>>
    /\ s4 = [Error |-> NewError, Gen |-> <<>>]
    /\ ret = NoReturn

\* nothing parsed, nothing emitted
\* the emitted module: its constructors, and the calls made of them
NoAst == [ctors |-> <<>>, made |-> <<>>]

\* no parser has been constructed
NoParser == [made |-> FALSE]

\* no DSL parser has been constructed
NoBaseParser == [made |-> FALSE]

InitBack ==
    /\ lang = NewLanguage
    /\ heap = <<>>
    /\ parsed = <<>>
    /\ bp = NoBaseParser
    /\ cls = <<>>
    /\ tk = NoTokenizer
    /\ out = <<>>
    /\ ast = NoAst
    /\ ps = NoParser

InitSplit == InitFront /\ InitBack

\* the author of the spec writes one more line
AddLine ==
    /\ pc = "s1"
    /\ \E kind \in {"div"} \cup OtherKinds :
          /\ kind = "div" => CountKind(lines, {"div"}) < MaxDividerLines
          /\ kind # "div" => CountKind(lines, OtherKinds) < MaxOtherLines
          /\ lines' = Append(lines, kind)
          /\ input' = input \o LineText(kind)
    /\ UNCHANGED <<s1, runVars, backVars>>

\* the mutant of StageFailed: the error bag of a stage is not looked at
StageFailedNever(e) == FALSE

\* if sN.Error.ToError() != nil
StageFailed(e) == ~ToError(e).nil

\* Run: s1 := stages.RunStage1(input), and the return on its error
RunStage1 ==
    /\ pc = "s1"
    /\ s1' = [Stage1Run(input) EXCEPT !.Error = ToErrorState(@)]
    /\ stagesRun' = Append(stagesRun, "S1")
    /\ IF StageFailed(s1'.Error)
       THEN pc' = "done" /\ ret' = Return(<<>>, ToError(s1'.Error))
       ELSE pc' = "s2" /\ UNCHANGED ret
    /\ UNCHANGED <<lines, input, s2Error, s3Error, s4, backVars>>

NextSplit == AddLine \/ RunStage1

SpecSplit == InitSplit /\ [][NextSplit]_vars

----------------------------------------------------------------------------
(* pgen.Run: the stages in order, and the return on the first failure      *)

MaxErrors == 2

\* the error bags a stage can end with: up to MaxErrors errors of the kinds
Bags(kinds) == UNION {[1..k -> {ErrorOf(x) : x \in kinds}] : k \in 0..MaxErrors}

\* Stage2.run records the errors of the DSL parsers and of the keyword,
\* operator and node headers
S2Kinds == {"parse", "invalid"}

\* Stage31.run records the errors of ParseCharacterClass
S31Kinds == {"class"}

\* the texts stage 4 can end with
GenTexts == {<<"g">>, <<"g", NL>>, <<"g", NL, NL>>}

RECURSIVE TrimRightNL(_)
\* strings.TrimRight(text, "\n")
TrimRightNL(text) ==
    IF text # <<>> /\ text[Len(text)] = NL
    THEN TrimRightNL(SubSeq(text, 1, Len(text) - 1))
    ELSE text

\* s2 := stages.RunStage2(s1), and the return on its error
RunS2 ==
    /\ pc = "s2"
    /\ \E errs \in Bags(S2Kinds) :
          s2Error' = ToErrorState([NewError EXCEPT !.errors = errs])
    /\ stagesRun' = Append(stagesRun, "S2")
    /\ IF StageFailed(s2Error')
       THEN pc' = "done" /\ ret' = Return(<<>>, ToError(s2Error'))
       ELSE pc' = "s31" /\ UNCHANGED ret
    /\ UNCHANGED <<splitVars, s3Error, s4, backVars>>

\* s31 := stages.RunStage31(s2)
RunS31 ==
    /\ pc = "s31"
    /\ \E errs \in Bags(S31Kinds) :
          s3Error' = [s3Error EXCEPT ![1] = [NewError EXCEPT !.errors = errs]]
    /\ stagesRun' = Append(stagesRun, "S31")
    /\ pc' = "s32"
    /\ UNCHANGED <<splitVars, s2Error, s4, ret, backVars>>

\* s32 := stages.RunStage32(s2): genGrammarRuleCode returns no error
RunS32 ==
    /\ pc = "s32"
    /\ s3Error' = [s3Error EXCEPT ![2] = NewError]
    /\ stagesRun' = Append(stagesRun, "S32")
    /\ pc' = "s33"
    /\ UNCHANGED <<splitVars, s2Error, s4, ret, backVars>>

\* the message Run builds from the bags of the failed generators
S3Message(bags) ==
    Concat([i \in 1..Len(bags) |->
               IF StageFailed(bags[i]) THEN ToError(bags[i]).msg ELSE <<>>])

\* s33 := stages.RunStage33(s2), which records no error, and the return
\* when one of the three generators failed
RunS33 ==
    /\ pc = "s33"
    /\ s3Error' = [i \in 1..3 |->
                      ToErrorState(IF i = 3 THEN NewError ELSE s3Error[i])]
    /\ stagesRun' = Append(stagesRun, "S33")
    /\ IF \E i \in 1..3 : StageFailed(s3Error'[i])
       THEN /\ pc' = "done"
            /\ ret' = Return(<<>>, [nil |-> FALSE, msg |-> S3Message(s3Error')])
       ELSE pc' = "s4" /\ UNCHANGED ret
    /\ UNCHANGED <<splitVars, s2Error, s4, backVars>>

\* s4 := stages.RunStage4(s31, s32, s33), which records no error, and the
\* return of its text
RunS4 ==
    /\ pc = "s4"
    /\ \E gen \in GenTexts : s4' = [Error |-> NewError, Gen |-> gen]
    /\ stagesRun' = Append(stagesRun, "S4")
    /\ pc' = "done"
    /\ IF StageFailed(s4'.Error)
       THEN ret' = Return(<<>>, ToError(s4'.Error))
       ELSE ret' = Return(TrimRightNL(s4'.Gen) \o <<NL>>, NilError)
    /\ UNCHANGED <<splitVars, s2Error, s3Error, backVars>>

NextRun ==
    AddLine \/ RunStage1 \/ RunS2 \/ RunS31 \/ RunS32 \/ RunS33 \/ RunS4

SpecRun == InitSplit /\ [][NextRun]_vars

AllStages == <<"S1", "S2", "S31", "S32", "S33", "S4">>

\* the messages of the bags of the three generators, one after another
S3Joined ==
    Concat([i \in 1..3 |->
               [k \in 1..Len(s3Error[i].errors) |-> <<s3Error[i].errors[k], NL>>]])

\* C3: Run runs S1, S2, the three S3 generators and S4 in this order; with a
\* non-empty bag of S1, or else of S2, it returns that bag's joined error and
\* has run no later stage; with an error in a bag of the S3 generators it
\* returns the concatenation of the joined errors of the failing generators
\* and has not run S4; and with an error it returns the empty output.
C3_RunHalts ==
    /\ stagesRun = SubSeq(AllStages, 1, Len(stagesRun))
    /\ ret.returned =>
          /\ ~ret.err.nil => ret.output = <<>>
          /\ ret.err.nil => stagesRun = AllStages /\ ret.output # <<>>
          /\ IF s1.Error.errors # <<>>
             THEN /\ stagesRun = <<"S1">>
                  /\ ret.err = JoinedError(s1.Error.errors)
             ELSE IF s2Error.errors # <<>>
             THEN /\ stagesRun = <<"S1", "S2">>
                  /\ ret.err = JoinedError(s2Error.errors)
             ELSE IF \E i \in 1..3 : s3Error[i].errors # <<>>
             THEN /\ stagesRun = <<"S1", "S2", "S31", "S32", "S33">>
                  /\ ret.err = [nil |-> FALSE, msg |-> S3Joined]
             ELSE ret.err.nil

\* Run returned the error of a failed generator
C3_Witness ==
    /\ ret.returned
    /\ s3Error[1].errors # <<>>
    /\ stagesRun = <<"S1", "S2", "S31", "S32", "S33">>
    /\ ~ret.err.nil /\ ret.output = <<>>

\* the lines of the text that hold the divider string: 120 '-' and a newline
DividerBearing == {"div", "long", "pre"}

AllUnset(st) ==
    /\ st.Tokens.nil /\ st.Keywords.nil /\ st.Operators.nil
    /\ st.Nodes.nil /\ st.Grammars.nil /\ st.Hack.nil

\* C1: stage 1 records no section-count error exactly when the split on the
\* divider string yields six sections, that is when the text holds five
\* dividers; with any other number n of dividers the only error names the
\* expected count 6 and the actual count n + 1, and Tokens, Keywords,
\* Operators, Nodes, Grammars and Hack stay unset.
C1_SectionCount ==
    s1.ran =>
        LET d == CountKind(lines, DividerBearing)
        IN  /\ Len(s1.sections) = d + 1
            /\ d = SectionCount - 1 =>
                   /\ \A i \in 1..Len(s1.Error.errors) :
                          s1.Error.errors[i].kind # "parts"
                   /\ ~s1.Tokens.nil /\ ~s1.Hack.nil
            /\ d # SectionCount - 1 =>
                   /\ s1.Error.errors =
                          <<[kind |-> "parts", expected |-> 6, got |-> d + 1]>>
                   /\ AllUnset(s1)

\* seven dividers: eight sections, refused
C1_Witness ==
    /\ s1.ran
    /\ CountKind(lines, DividerBearing) = 7
    /\ s1.Error.errors = <<[kind |-> "parts", expected |-> 6, got |-> 8]>>

\* C2: only a line of exactly 120 '-' characters splits the text: the number
\* of sections is one more than the number of such lines, so a line of 121
\* '-' characters or a line with text before its 120 '-' does not split.
C2_OnlyExactDividerLines ==
    s1.ran => Len(s1.sections) = CountKind(lines, {"div"}) + 1

----------------------------------------------------------------------------
(* Strings of the generator: bytes in ASCII order, util.ToPascalCase,      *)
(* util.ToCamelCase and util.SafeName                                      *)

\* the printable ASCII characters the model writes, in the order of their codes
Ascii ==
    <<"!", "#", "$", "%", "&", "'", "(", ")", "*", "+", ",", "-", ".", "/", "0", "1", "2", "3", "4", "5", "6", "7", "8", "9", ":", ";", "<", "=", ">", "?", "@", "A", "B", "C", "D", "E", "F", "G", "H", "I", "J", "K", "L", "M", "N", "O", "P", "Q", "R", "S", "T", "U", "V", "W", "X", "Y", "Z", "[", "\\", "]", "^", "_", "a", "b", "c", "d", "e", "f", "g", "h", "i", "j", "k", "l", "m", "n", "o", "p", "q", "r", "s", "t", "u", "v", "w", "x", "y", "z", "{", "|", "}", "~">>

Ord(c) == CHOOSE i \in 1..Len(Ascii) : Ascii[i] = c

LowerCase == <<"a", "b", "c", "d", "e", "f", "g", "h", "i", "j", "k", "l", "m", "n", "o", "p", "q", "r", "s", "t", "u", "v", "w", "x", "y", "z">>

UpperCase == <<"A", "B", "C", "D", "E", "F", "G", "H", "I", "J", "K", "L", "M", "N", "O", "P", "Q", "R", "S", "T", "U", "V", "W", "X", "Y", "Z">>

IsLetter(c) == \E i \in 1..26 : c = LowerCase[i] \/ c = UpperCase[i]

ToUpper(c) ==
    IF \E i \in 1..26 : c = LowerCase[i]
    THEN UpperCase[CHOOSE i \in 1..26 : c = LowerCase[i]] ELSE c

ToLower(c) ==
    IF \E i \in 1..26 : c = UpperCase[i]
    THEN LowerCase[CHOOSE i \in 1..26 : c = UpperCase[i]] ELSE c

\* a < b as Go compares strings: byte by byte, a proper prefix first
RECURSIVE StrLess(_, _)
StrLess(a, b) ==
    IF b = <<>> THEN FALSE
    ELSE IF a = <<>> THEN TRUE
    ELSE IF Head(a) # Head(b) THEN Ord(Head(a)) < Ord(Head(b))
    ELSE StrLess(Tail(a), Tail(b))

\* sort.Strings / sort.Ints: the list put in ascending order under less
SortBy(list, less(_, _)) ==
    LET rank(i) == Cardinality({j \in 1..Len(list) :
                       \/ less(list[j], list[i])
                       \/ ~less(list[i], list[j]) /\ j < i}) + 1
    IN  [k \in 1..Len(list) |-> list[CHOOSE i \in 1..Len(list) : rank(i) = k]]

\* the mutant of SortStrings: the list is left in the order it was collected
SortStringsNot(list) == list

SortStrings(list) == SortBy(list, StrLess)

IntLess(a, b) == a < b

\* the mutant of SortInts: the list is left in the order it was collected
SortIntsNot(list) == list

SortInts(list) == SortBy(list, IntLess)

\* strings.Join
RECURSIVE Join(_, _)
Join(ss, sep) ==
    With(ss, LAMBDA v : IF v = <<>> THEN <<>>
                        ELSE IF Len(v) = 1 THEN v[1]
                        ELSE v[1] \o sep \o Join(Tail(v), sep))

\* the loop of toPascalOrCamelCase from character i on
RECURSIVE CaseFrom(_, _, _)
CaseFrom(s, i, shouldUpper) ==
    IF i > Len(s) THEN <<>>
    ELSE IF i # 1 /\ s[i] = "_" THEN CaseFrom(s, i + 1, TRUE)
    ELSE IF shouldUpper /\ IsLetter(s[i])
         THEN <<ToUpper(s[i])>> \o CaseFrom(s, i + 1, FALSE)
    ELSE <<ToLower(s[i])>> \o CaseFrom(s, i + 1, shouldUpper)

ToPascalCase(s) == CaseFrom(s, 1, TRUE)

ToCamelCase(s) == CaseFrom(s, 1, FALSE)

goReservedNames ==
    {<<"b", "r", "e", "a", "k">>, <<"c", "a", "s", "e">>, <<"c", "h", "a", "n">>, <<"c", "o", "n", "s", "t">>, <<"c", "o", "n", "t", "i", "n", "u", "e">>, <<"d", "e", "f", "a", "u", "l", "t">>, <<"d", "e", "f", "e", "r">>,
     <<"e", "l", "s", "e">>, <<"f", "a", "l", "s", "e">>, <<"f", "a", "l", "l", "t", "h", "r", "o", "u", "g", "h">>, <<"f", "o", "r">>, <<"f", "u", "n", "c">>, <<"g", "o">>, <<"g", "o", "t", "o">>, <<"i", "f">>,
     <<"i", "m", "p", "o", "r", "t">>, <<"i", "n", "t">>, <<"i", "n", "t", "e", "r", "f", "a", "c", "e">>, <<"m", "a", "p">>, <<"n", "i", "l">>, <<"p", "a", "c", "k", "a", "g", "e">>, <<"r", "a", "n", "g", "e">>,
     <<"r", "e", "t", "u", "r", "n">>, <<"s", "e", "l", "e", "c", "t">>, <<"s", "t", "r", "i", "n", "g">>, <<"s", "t", "r", "u", "c", "t">>, <<"s", "w", "i", "t", "c", "h">>, <<"t", "r", "u", "e">>, <<"t", "y", "p", "e">>,
     <<"v", "a", "r">>, <<"m", "a", "x">>, <<"m", "i", "n">>, <<"l", "e", "n">>}

SafeName(name) == IF name \in goReservedNames THEN name \o <<"_">> ELSE name

\* strconv of a small natural number
RECURSIVE Itoa(_)
Itoa(n) ==
    IF n < 10 THEN <<<<"0", "1", "2", "3", "4", "5", "6", "7", "8", "9">>[n + 1]>>
    ELSE Itoa(n \div 10) \o <<<<"0", "1", "2", "3", "4", "5", "6", "7", "8", "9">>[(n % 10) + 1]>>

----------------------------------------------------------------------------
(* config and models.Language                                              *)

reservedVariables == {<<"_">>, <<"p", "s">>, <<"t", "k">>, <<"p", "o", "s">>, <<"g", "r", "o", "u", "p">>}

builtinTokens == <<<<"e", "n", "d", "_", "o", "f", "_", "f", "i", "l", "e">>, <<"p", "s", "e", "u", "d", "o">>, <<"w", "h", "i", "t", "e", "s", "p", "a", "c", "e">>, <<"n", "e", "w", "l", "i", "n", "e">>>>

\* config.OperatorCharName; the characters are those operatorRegex admits
operatorCharName ==
    ("!" :> <<"n", "o", "t">>) @@ ("%" :> <<"p", "e", "r", "c", "e", "n", "t">>) @@ ("&" :> <<"a", "n", "d">>) @@
    ("(" :> <<"l", "e", "f", "t", "_", "p", "a", "r", "e", "n">>) @@ (")" :> <<"r", "i", "g", "h", "t", "_", "p", "a", "r", "e", "n">>) @@ ("*" :> <<"s", "t", "a", "r">>) @@
    ("+" :> <<"p", "l", "u", "s">>) @@ ("," :> <<"c", "o", "m", "m", "a">>) @@ ("." :> <<"d", "o", "t">>) @@
    ("/" :> <<"s", "l", "a", "s", "h">>) @@ (":" :> <<"c", "o", "l", "o", "n">>) @@ (";" :> <<"s", "e", "m", "i">>) @@
    ("<" :> <<"l", "e", "s", "s">>) @@ ("=" :> <<"e", "q", "u", "a", "l">>) @@ (">" :> <<"g", "r", "e", "a", "t", "e", "r">>) @@
    ("?" :> <<"q", "u", "e", "s", "t", "i", "o", "n">>) @@ ("@" :> <<"a", "t">>) @@ ("[" :> <<"l", "e", "f", "t", "_", "b", "r", "a", "c", "k", "e", "t">>) @@
    ("\\" :> <<"b", "a", "c", "k", "_", "s", "l", "a", "s", "h">>) @@ ("]" :> <<"r", "i", "g", "h", "t", "_", "b", "r", "a", "c", "k", "e", "t">>) @@ ("^" :> <<"c", "a", "r", "e", "t">>) @@
    ("{" :> <<"l", "e", "f", "t", "_", "b", "r", "a", "c", "e">>) @@ ("|" :> <<"b", "a", "r">>) @@ ("}" :> <<"r", "i", "g", "h", "t", "_", "b", "r", "a", "c", "e">>) @@
    ("~" :> <<"t", "i", "l", "d", "e">>) @@ ("#" :> <<"n", "u", "m", "_", "s", "i", "g", "n">>) @@ ("$" :> <<"d", "o", "l", "l", "a", "r">>) @@
    ("-" :> <<"m", "i", "n", "u", "s">>)

\* config.OperatorRegex().MatchString(text)
operatorRegex(text) ==
    text # <<>> /\ \A i \in 1..Len(text) : text[i] \in DOMAIN operatorCharName

\* m[k] = v on a Go map
MapPut(m, k, v) == (k :> v) @@ m

\* Language.AddKeyword
AddKeyword(l, keyword) ==
    [l EXCEPT !.keywords = Append(@, keyword),
              !.keywordMap = @ \cup {keyword}]

\* Language.AddOperator
AddOperator(l, operator) ==
    LET names == [i \in 1..Len(operator) |-> operatorCharName[operator[i]]]
    IN  [l EXCEPT !.operators = Append(@, operator),
                  !.operatorMap = MapPut(@, operator, Join(names, <<"_">>))]

\* Language.AddTokenRule
AddTokenRule(l, token) == [l EXCEPT !.tokenRules = Append(@, token)]

----------------------------------------------------------------------------
(* stages.OperatorNode: the operator trie and the code it emits            *)
(*                                                                         *)
(* The trie is a function from the path of a node to the node; the         *)
(* childrenMap of the node at path p maps ch to the node at p \o <<ch>>.   *)
(* A character is kept as its code, an index into Ascii.  Emitted code is  *)
(* a sequence of statements [op, arg, body].                               *)

NewOperatorNode(ch, level) ==
    [ch |-> ch, name |-> <<>>, level |-> level, children |-> <<>>]

RECURSIVE Update(_, _, _, _)
Update(tree, at, name, val) ==
    IF tree[at].level = Len(val) THEN [tree EXCEPT ![at].name = name]
    ELSE LET ch == Ord(val[tree[at].level + 1])
             sub == Append(at, Ascii[ch])
         IN  IF sub \in DOMAIN tree THEN Update(tree, sub, name, val)
             ELSE Update(MapPut([tree EXCEPT ![at].children = Append(@, ch)],
                                sub, NewOperatorNode(ch, tree[at].level + 1)),
                         sub, name, val)

\* VariableManager.createVar: the first of name, name1, name2, ... not in table
CreateVar(table, s) ==
    LET name == IF s # <<>> /\ s[1] = "_" THEN s ELSE <<"_">> \o s
        Try(index) == IF index = 0 THEN name ELSE name \o Itoa(index)
        index == Min({i \in 0..Cardinality(table) : Try(i) \notin table})
    IN  [name |-> Try(index), table |-> table \cup {Try(index)}]

Stmt(op, arg, body) == [op |-> op, arg |-> arg, body |-> body]

\* OperatorNode.unescapeCh is the text of the character in the emitted code
unescapeCh(node) == <<Ascii[node.ch]>>

OpKindName(name) == <<"T", "o", "k", "e", "n", "T", "y", "p", "e", "O", "p">> \o ToPascalCase(name)

RECURSIVE genChildCode(_, _, _)
RECURSIVE genChildren(_, _, _, _)
\* the loop of genChildCode over the children cs that are left
genChildren(tree, at, cs, table) ==
    IF cs = <<>> THEN [code |-> <<>>, table |-> table]
    ELSE LET sub == Append(at, Ascii[Head(cs)])
             child == tree[sub]
             named == child.name # <<>>
             posVar == CreateVar(table, <<"p">>)
             inner == genChildCode(tree, sub,
                                   IF named THEN table ELSE posVar.table)
             body ==
                 (IF named THEN <<>> ELSE <<Stmt("mark", posVar.name, <<>>)>>)
                 \o <<Stmt("forward", <<>>, <<>>)>>
                 \o inner.code
                 \o (IF named
                     THEN <<Stmt("kind", OpKindName(child.name), <<>>),
                            Stmt("break", <<>>, <<>>)>>
                     ELSE <<Stmt("reset", posVar.name, <<>>)>>)
             rest == genChildren(tree, at, Tail(cs), inner.table)
         IN  [code |-> <<Stmt("if", unescapeCh(child), body)>> \o rest.code,
              table |-> rest.table]

genChildCode(tree, at, table) ==
    genChildren(tree, at, SortInts(tree[at].children), table)

\* OperatorNode.GenCode on the root: one case arm per child
GenCode(tree, table) ==
    LET cs == SortInts(tree[<<>>].children)
        RECURSIVE arms(_, _)
        arms(i, tb) ==
            IF i > Len(cs) THEN <<>>
            ELSE LET child == tree[<<Ascii[cs[i]]>>]
                     inner == genChildCode(tree, <<Ascii[cs[i]]>>, tb)
                     body == <<Stmt("entered", <<>>, <<>>),
                               Stmt("forward", <<>>, <<>>)>>
                             \o inner.code
                             \o (IF child.name # <<>>
                                 THEN <<Stmt("kind", OpKindName(child.name), <<>>)>>
                                 ELSE <<>>)
                 IN  <<Stmt("case", unescapeCh(child), body)>>
                     \o arms(i + 1, inner.table)
    IN  arms(1, table)

RECURSIVE UpdateAll(_, _, _)
UpdateAll(tree, l, i) ==
    IF i > Len(l.operators) THEN tree
    ELSE UpdateAll(Update(tree, <<>>, l.operatorMap[l.operators[i]],
                          l.operators[i]), l, i + 1)

\* Stage31.genTokenizerOpCode
genTokenizerOpCode(l) ==
    GenCode(UpdateAll(<<>> :> NewOperatorNode(0, 0), l, 1),
            reservedVariables)

----------------------------------------------------------------------------
(* The emitted tokenizer: its primitives, and op() around the emitted arms *)

\* the rune '\x00' that _safeRead returns at the end of the buffer
EOF == ""

TokenTypeDummy == <<"T", "o", "k", "e", "n", "T", "y", "p", "e", "D", "u", "m", "m", "y">>

_safeRead(t) ==
    IF t.pos.Offset >= Len(t.buf) THEN EOF ELSE t.buf[t.pos.Offset + 1]

\* Tokenizer._lineEnd, called by _stepForward after it advanced the offset
_lineEnd(t, ch) ==
    \/ ch = NL
    \/ ch = "\r" /\ t.pos.Offset < Len(t.buf) /\ t.buf[t.pos.Offset + 1] # NL

_stepForward(t, ch) ==
    LET moved == [t EXCEPT !.pos.Offset = @ + 1, !.pos.CharIdx = @ + 1]
    IN  IF _lineEnd(moved, ch)
        THEN [moved EXCEPT !.pos.LineIdx = @ + 1, !.pos.CharIdx = 0]
        ELSE moved

_forward(t) ==
    LET stepped == _stepForward(t, _safeRead(t))
    IN  [stepped EXCEPT !.lookahead = _safeRead(stepped)]

_mark(t) == t.pos

\* the mutant of _reset: the position is left where the failed attempt ended
_resetNot(t, p) == t

_reset(t, p) ==
    LET moved == [t EXCEPT !.pos = p]
    IN  [moved EXCEPT !.lookahead = _safeRead(moved)]

\* tries is the record of the calls of the rule methods in the last next()
NewTokenizer(fileContent) ==
    LET t == [made |-> TRUE, buf |-> fileContent, pos |-> NewPosition(0, 0, 0),
              prevPos |-> NewPosition(0, 0, 0), lookahead |-> EOF,
              calls |-> 0, kind |-> TokenTypeDummy, panicked |-> FALSE,
              tries |-> <<>>]
    IN  [t EXCEPT !.lookahead = _safeRead(t)]

\* Go's execution of the emitted statements: st holds the tokenizer, the
\* locals entered and kind, the position variables, and whether a break left
\* the switch
RECURSIVE ExecBlock(_, _)
RECURSIVE ExecStmt(_, _)
ExecBlock(stmts, st) ==
    IF stmts = <<>> \/ st.brk THEN st
    ELSE ExecBlock(Tail(stmts), ExecStmt(Head(stmts), st))

ExecStmt(s, st) ==
    CASE s.op = "entered" -> [st EXCEPT !.entered = TRUE]
      [] s.op = "forward" -> [st EXCEPT !.tk = _forward(@)]
      [] s.op = "mark"    -> [st EXCEPT !.env = MapPut(@, s.arg, _mark(st.tk))]
      [] s.op = "reset"   -> [st EXCEPT !.tk = _reset(@, st.env[s.arg])]
      [] s.op = "kind"    -> [st EXCEPT !.kind = s.arg]
      [] s.op = "break"   -> [st EXCEPT !.brk = TRUE]
      [] s.op = "if"      -> IF st.tk.lookahead = s.arg[1]
                             THEN ExecBlock(s.body, st) ELSE st

\* Tokenizer.op with the arms in place of <op_placeholder>
op(t, arms) ==
    LET st == [tk |-> t, entered |-> FALSE, kind |-> TokenTypeDummy,
               env |-> <<>>, brk |-> FALSE]
        taken == {i \in 1..Len(arms) : arms[i].arg[1] = t.lookahead}
        end == IF taken = {} THEN st
               ELSE ExecBlock(arms[CHOOSE i \in taken : TRUE].body, st)
    IN  [end.tk EXCEPT !.kind = end.kind,
                       !.panicked = end.entered /\ end.kind = TokenTypeDummy,
                       !.calls = @ + 1]

----------------------------------------------------------------------------
(* models.TokenRuleNode and models.GrammarRuleNode, and the trees the DSL  *)
(* parsers build                                                           *)
(*                                                                         *)
(* The heap is the sequence of the nodes allocated so far; the address of  *)
(* a node is its index and 0 is nil.  A node keeps the text of its snippet *)
(* in place of the snippet.  A rule is written down as a shape: its name,  *)
(* its choices, their items and atoms; the parser's result on the text of  *)
(* the shape is the tree Parse* allocates.                                 *)

Nil == 0

\* NewTokenRuleNode / NewGrammarRuleNode: the other fields are zero
NewRuleNode(kind, parent) ==
    [kind |-> kind, parent |-> parent, children |-> <<>>, text |-> <<>>,
     name |-> <<>>, ruleMemo |-> FALSE, separator |-> Nil, action |-> Nil,
     suffix |-> ""]

\* Child(): the first child, or nil
Child(h, n) == IF h[n].children = <<>> THEN Nil ELSE h[n].children[1]

\* shapes: an atom, the absent separator, an item, a choice, a rule
Atom(kind, text) == [kind |-> kind, text |-> text, choices |-> <<>>]

Group(choices) == [kind |-> "group-atom", text |-> <<>>, choices |-> choices]

NoAtom == Atom("", <<>>)

Item(kind, atom) ==
    [kind |-> kind, sep |-> NoAtom, atom |-> atom, label |-> <<>>, suffix |-> ""]

SepItem(kind, sep, atom) ==
    [kind |-> kind, sep |-> sep, atom |-> atom, label |-> <<>>, suffix |-> ""]

\* the item with `[` or `]` after it
Suffixed(item, suffix) == [item EXCEPT !.suffix = suffix]

\* the item with a name before it: label`=`item
Labelled(label, item) == [item EXCEPT !.label = label]

Choice(items, action) == [items |-> items, action |-> action]

Rule(name, memo, choices) == [name |-> name, memo |-> memo, choices |-> choices]

\* the source text of a shape, with one space between items and around `|`
RECURSIVE AtomText(_)
RECURSIVE ItemText(_)
RECURSIVE ChoiceText(_)
AtomText(a) ==
    IF a.kind = "group-atom"
    THEN <<"(">> \o Join([i \in 1..Len(a.choices) |-> ChoiceText(a.choices[i])],
                      <<" ", "|", " ">>) \o <<")">>
    ELSE a.text

ItemText(it) ==
    (IF it.label = <<>> THEN <<>> ELSE it.label \o <<"=">>) \o
    CASE it.kind = "negative-lookahead-item" -> <<"!">> \o AtomText(it.atom)
      [] it.kind = "positive-lookahead-item" -> <<"&">> \o AtomText(it.atom)
      [] it.kind = "forward-if-not-match-item" -> <<"~">> \o AtomText(it.atom)
      [] it.kind = "optional-item" -> AtomText(it.atom) \o <<"?">>
      [] it.kind = "repeat-0-item" -> AtomText(it.atom) \o <<"*">>
      [] it.kind = "repeat-1-item" -> AtomText(it.atom) \o <<"+">>
      [] it.kind = "separated-repeat-0-item" ->
             AtomText(it.sep) \o <<".">> \o AtomText(it.atom) \o <<"*">>
      [] it.kind = "separated-repeat-1-item" ->
             AtomText(it.sep) \o <<".">> \o AtomText(it.atom) \o <<"+">>
      [] OTHER -> AtomText(it.atom)

ChoiceText(c) ==
    Join([i \in 1..Len(c.items) |->
             ItemText(c.items[i])
             \o (IF c.items[i].suffix = "" THEN <<>> ELSE <<" ", c.items[i].suffix>>)],
         <<" ">>)
    \o (IF c.action = <<>> THEN <<>> ELSE <<" ", "{">> \o c.action \o <<"}">>)

\* the parsers: each returns the heap and the address of the node it made
RECURSIVE parseAtom(_, _, _)
RECURSIVE parseItem(_, _, _)
RECURSIVE parseChoice(_, _, _)
RECURSIVE parseChoices(_, _, _, _)

\* parseNameAtom, parseStringAtom, ..., parseGroupAtom
parseAtom(h, a, parent) ==
    LET atom == Len(h) + 1
        made == Append(h, [NewRuleNode(a.kind, parent) EXCEPT
                              !.text = AtomText(a),
                              !.name = IF a.kind = "name-atom"
                                       THEN AtomText(a) ELSE <<>>])
    IN  IF a.kind = "group-atom"
        THEN With(parseChoices(made, a.choices, atom, <<>>),
                  LAMBDA r : [heap |-> [r.heap EXCEPT ![atom].children = r.ids],
                              id |-> atom])
        ELSE [heap |-> made, id |-> atom]

\* parseItem: the separator, when there is one, is parsed before the atom
parseItem(h, it, parent) ==
    LET item == Len(h) + 1
        made == Append(h, [NewRuleNode(it.kind, parent) EXCEPT
                              !.text = ItemText(it), !.name = it.label,
                              !.suffix = it.suffix])
    IN  With(IF it.sep = NoAtom THEN [heap |-> made, id |-> Nil]
             ELSE parseAtom(made, it.sep, item),
             LAMBDA sep :
                 With(parseAtom(sep.heap, it.atom, item),
                      LAMBDA atom :
                          [heap |-> [atom.heap EXCEPT
                                        ![item].separator = sep.id,
                                        ![item].children = <<atom.id>>],
                           id |-> item]))

\* parseChoice with parseChoiceRule and parseChoiceAction
parseChoice(h, c, parent) ==
    LET choice == Len(h) + 1
        made == Append(h, [NewRuleNode("choice", parent) EXCEPT
                              !.text = ChoiceText(c)])
        RECURSIVE items(_, _, _)
        items(hp, i, ids) ==
            IF i > Len(c.items) THEN [heap |-> hp, ids |-> ids]
            ELSE With(parseItem(hp, c.items[i], choice),
                      LAMBDA r : items(r.heap, i + 1, Append(ids, r.id)))
        action(its) == Len(its.heap) + 1
        acted(its) == IF c.action = <<>> THEN its.heap
                      ELSE Append(its.heap,
                                  [NewRuleNode("name-action", choice) EXCEPT
                                      !.text = c.action])
    IN  With(items(made, 1, <<>>),
             LAMBDA its :
                 [heap |-> [acted(its) EXCEPT
                               ![choice].children = its.ids,
                               ![choice].action = IF c.action = <<>> THEN Nil
                                                  ELSE action(its)],
                  id |-> choice])

parseChoices(h, cs, parent, ids) ==
    IF cs = <<>> THEN [heap |-> h, ids |-> ids]
    ELSE With(parseChoice(h, Head(cs), parent),
              LAMBDA r : parseChoices(r.heap, Tail(cs), parent, Append(ids, r.id)))

\* ParseTokenRule / ParseGrammarRule on the text of a rule shape
ParseRule(h, rule) ==
    LET node == Len(h) + 1
        made == Append(h, [NewRuleNode("rule", Nil) EXCEPT
                              !.name = rule.name, !.ruleMemo = rule.memo])
    IN  With(parseChoices(made, rule.choices, node, <<>>),
             LAMBDA r :
                 [heap |-> [r.heap EXCEPT
                      ![node].children = r.ids,
                      ![node].text = rule.name
                          \o (IF rule.memo THEN <<"(", "m", "e", "m", "o", ")">> ELSE <<>>) \o <<":", " ">>
                          \o Join([i \in 1..Len(r.ids) |-> r.heap[r.ids[i]].text],
                                  <<" ", "|", " ">>)],
                  id |-> node])

\* the mutant of AddGrammarRule: the id is the index of the rule in the list
AddGrammarRuleAt(l, h, rule) ==
    [l EXCEPT !.grammarRules = Append(@, rule),
              !.memoIdMap = IF h[rule].ruleMemo
                            THEN MapPut(@, rule, Len(l.grammarRules))
                            ELSE @]

\* Language.AddGrammarRule
AddGrammarRule(l, h, rule) ==
    [l EXCEPT !.grammarRules = Append(@, rule),
              !.memoIdMap = IF h[rule].ruleMemo
                            THEN MapPut(@, rule, Cardinality(DOMAIN @))
                            ELSE @]

----------------------------------------------------------------------------
(* Stage2: the items of the sections parsed into the Language, and the     *)
(* rewrite of the groups.  Stage2.run parses the sections in the order     *)
(* token rules, keywords, operators, grammar rules.                        *)

\* fn is called on a node, then its children are visited, then its separator
RECURSIVE Visit(_, _)
Visit(h, n) ==
    <<n>> \o Concat([i \in 1..Len(h[n].children) |-> Visit(h, h[n].children[i])])
          \o (IF h[n].separator = Nil THEN <<>> ELSE Visit(h, h[n].separator))

\* the mutant of CanFlatten: the action of the only choice is not looked at
CanFlattenAny(h, node) == Len(h[node].children) = 1

\* len(node.Children()) == 1 && node.Child().Action() == nil
CanFlatten(h, node) ==
    Len(h[node].children) = 1 /\ h[Child(h, node)].action = Nil

\* the loop over atomNodes of convertTokenRules and of convertGrammarRules;
\* st holds the heap, the language and the map newRules
RECURSIVE hoistGroups(_, _, _)
hoistGroups(st, atomNodes, grammar) ==
    IF atomNodes = <<>> THEN st
    ELSE LET node == Head(atomNodes)
             choices == st.heap[node].children
             key == st.heap[node].text
             newRule == Len(st.heap) + 1
             name == <<"_", "g", "r", "o", "u", "p", "_">> \o Itoa(Cardinality(DOMAIN st.newRules) + 1)
             renamed == [st.heap EXCEPT ![node].kind = "name-atom",
                                        ![node].children = <<>>]
             h == Append([renamed EXCEPT ![node].name = name],
                         [NewRuleNode("rule", Nil) EXCEPT
                             !.children = choices, !.text = key, !.name = name])
         IN  With(IF key \in DOMAIN st.newRules
                  THEN [st EXCEPT !.heap = [renamed EXCEPT ![node].name =
                                               renamed[st.newRules[key]].name]]
                  ELSE [heap |-> h,
                        lang |-> IF grammar THEN AddGrammarRule(st.lang, h, newRule)
                                 ELSE AddTokenRule(st.lang, newRule),
                        newRules |-> MapPut(st.newRules, key, newRule)],
                  LAMBDA next : hoistGroups(next, Tail(atomNodes), grammar))

\* Stage2.convertTokenRules: every group atom becomes the name of a new rule
convertTokenRules(l, h) ==
    LET visited == Concat([i \in 1..Len(l.tokenRules) |-> Visit(h, l.tokenRules[i])])
    IN  With(SelectSeq(visited, LAMBDA n : h[n].kind = "group-atom"),
             LAMBDA atomNodes :
                 hoistGroups([heap |-> h, lang |-> l, newRules |-> <<>>],
                             atomNodes, FALSE))

\* the visit of convertGrammarRules: a group of one choice without action
\* takes the items of the choice as its children, before they are visited
RECURSIVE visitGrammar(_, _)
visitGrammar(st, n) ==
    LET h == st.heap
        items == h[Child(h, n)].children
        flat == [a \in DOMAIN h |->
                    IF a = n THEN [h[a] EXCEPT !.children = items]
                    ELSE IF \E i \in 1..Len(items) : items[i] = a
                         THEN [h[a] EXCEPT !.parent = n]
                    ELSE h[a]]
        seen == IF h[n].kind # "group-atom" THEN st
                ELSE IF CanFlatten(h, n) THEN [st EXCEPT !.heap = flat]
                ELSE [st EXCEPT !.atomNodes = Append(@, n)]
        RECURSIVE each(_, _)
        each(s, ns) == IF ns = <<>> THEN s
                       ELSE With(visitGrammar(s, Head(ns)),
                                 LAMBDA next : each(next, Tail(ns)))
    IN  With(seen,
             LAMBDA entered :
                 With(each(entered, entered.heap[n].children),
                      LAMBDA below :
                          IF h[n].separator = Nil THEN below
                          ELSE visitGrammar(below, h[n].separator)))

\* Stage2.convertGrammarRules
convertGrammarRules(l, h) ==
    LET RECURSIVE each(_, _)
        each(s, i) == IF i > Len(l.grammarRules) THEN s
                      ELSE With(visitGrammar(s, l.grammarRules[i]),
                                LAMBDA next : each(next, i + 1))
    IN  With(each([heap |-> h, atomNodes |-> <<>>], 1),
             LAMBDA visited :
                 hoistGroups([heap |-> visited.heap, lang |-> l, newRules |-> <<>>],
                             visited.atomNodes, TRUE))

MaxKeywords == 2

MaxTokenRules == 2

MaxGrammarRules == 2

\* Run has called stages.RunStage2 on the sections of a text
InitStage2 ==
    /\ lines = <<>>
    /\ input = <<>>
    /\ s1 = NewStage1(<<>>)
    /\ pc = "s2"
    /\ stagesRun = <<"S1">>
    /\ s2Error = NewError
    /\ s3Error = <<NewError, NewError, NewError>>
    /\ s4 = [Error |-> NewError, Gen |-> <<>>]
    /\ ret = NoReturn
    /\ InitBack

\* Stage2.parseTokenRules on an item that ParseTokenRule accepts
parseTokenRules(shapes) ==
    /\ pc = "s2"
    /\ lang.keywords = <<>> /\ lang.operators = <<>>
    /\ lang.astNodes = <<>> /\ lang.grammarRules = <<>>
    /\ Len(lang.tokenRules) < MaxTokenRules
    /\ \E shape \in shapes :
          \E rule \in {ParseRule(heap, shape)} :
              /\ heap' = rule.heap
              /\ parsed' = rule.heap
              /\ lang' = AddTokenRule(lang, rule.id)
    /\ UNCHANGED <<splitVars, runVars, emitVars, bp>>

\* Stage2.parseKeywords on an item that keywordRegex admits
parseKeywords(words) ==
    /\ pc = "s2"
    /\ lang.operators = <<>> /\ lang.astNodes = <<>> /\ lang.grammarRules = <<>>
    /\ Len(lang.keywords) < MaxKeywords
    /\ \E text \in words : lang' = AddKeyword(lang, text)
    /\ UNCHANGED <<splitVars, runVars, heap, parsed, emitVars, bp>>

\* Stage2.parseGrammarRules on an item that ParseGrammarRule accepts
parseGrammarRules(shapes) ==
    /\ pc = "s2"
    /\ Len(lang.grammarRules) < MaxGrammarRules
    /\ \E shape \in shapes :
          \E rule \in {ParseRule(heap, shape)} :
              /\ heap' = rule.heap
              /\ parsed' = rule.heap
              /\ lang' = AddGrammarRule(lang, rule.heap, rule.id)
    /\ UNCHANGED <<splitVars, runVars, emitVars, bp>>

\* Stage2.run after the sections are parsed: the two rewrites; Run goes on
\* to the generators
convertRules ==
    /\ pc = "s2"
    /\ \E tokens \in {convertTokenRules(lang, heap)} :
          \E grammars \in {convertGrammarRules(tokens.lang, tokens.heap)} :
              heap' = grammars.heap /\ lang' = grammars.lang
    /\ pc' = "s31"
    /\ stagesRun' = Append(stagesRun, "S2")
    /\ UNCHANGED <<splitVars, s2Error, s3Error, s4, ret, parsed, emitVars, bp>>

----------------------------------------------------------------------------
(* Operators declared, a text tokenized: op() on what is left of the text  *)

MaxOps == 3

MaxInputLen == 3

\* the operators a spec may declare, and the characters of a text
OpStrings == {<<"<">>, <<"<", "<">>, <<"<", "<", "=">>, <<"<", "=">>}

InputChars == {"<", "=", "x"}

Texts(n) == UNION {[1..k -> InputChars] : k \in 0..n}

\* Stage2.parseOperators on a line that operatorRegex admits
parseOperators(texts) ==
    /\ pc = "s2"
    /\ lang.astNodes = <<>> /\ lang.grammarRules = <<>>
    /\ Len(lang.operators) < MaxOps
    /\ \E text \in texts :
          /\ operatorRegex(text)
          /\ lang' = AddOperator(lang, text)
    /\ UNCHANGED <<splitVars, runVars, heap, parsed, emitVars, bp>>

\* the emitted module is built and a tokenizer is made for a text
MakeTokenizer ==
    /\ pc = "s31" /\ ~tk.made
    /\ \E text \in Texts(MaxInputLen) : tk' = NewTokenizer(text)
    /\ UNCHANGED <<splitVars, runVars, langVars, cls, out, ast, ps>>

\* Tokenizer.next reaches its last branch: kind = tk.op(); the token taken
\* starts where the one before ended
CallOp ==
    /\ tk.made /\ ~tk.panicked
    /\ tk.calls = 0 \/ tk.kind # TokenTypeDummy
    /\ tk.lookahead # EOF
    /\ tk' = op([tk EXCEPT !.prevPos = tk.pos], genTokenizerOpCode(lang))
    /\ UNCHANGED <<splitVars, runVars, langVars, cls, out, ast, ps>>

NextOp == parseOperators(OpStrings) \/ convertRules \/ MakeTokenizer \/ CallOp

SpecOp == InitStage2 /\ [][NextOp]_vars

IsPrefix(a, b) == Len(a) <= Len(b) /\ SubSeq(b, 1, Len(a)) = a

\* the declared operators that start the text left at the last call of op()
Candidates ==
    {lang.operators[i] : i \in 1..Len(lang.operators)} \cap
    {o \in OpStrings :
        IsPrefix(o, SubSeq(tk.buf, tk.prevPos.Offset + 1, Len(tk.buf)))}

Longest == CHOOSE o \in Candidates : \A p \in Candidates : Len(p) <= Len(o)

\* C6: when a declared operator is a prefix of the remaining input, op()
\* returns the kind of the longest such operator and has consumed exactly its
\* characters, the lookahead being the character after it; a longer candidate
\* that failed has left nothing consumed.
C6_LongestMatch ==
    (tk.made /\ tk.calls > 0 /\ Candidates # {}) =>
        /\ ~tk.panicked
        /\ tk.kind = OpKindName(lang.operatorMap[Longest])
        /\ tk.pos.Offset = tk.prevPos.Offset + Len(Longest)
        /\ tk.pos.CharIdx = tk.prevPos.CharIdx + Len(Longest)
        /\ tk.lookahead = _safeRead(tk)

\* `<` and `<<=` are declared and the text is `<<x`: the attempt at `<<=`
\* went through the node of `<<`, which is no operator, and was reset
C6_Witness ==
    /\ tk.made /\ tk.calls = 1
    /\ lang.operators = <<<<"<">>, <<"<", "<", "=">>>>
    /\ tk.buf = <<"<", "<", "x">>
    /\ tk.kind = <<"T", "o", "k", "e", "n", "T", "y", "p", "e", "O", "p", "L", "e", "s", "s">>
    /\ tk.pos.Offset = 1 /\ tk.lookahead = "<"

----------------------------------------------------------------------------
(* The generators over the Language: what Stage31, Stage32 and Stage4 emit *)
(* in an order that a Go map decides or that a sort fixes.  A range over a *)
(* map visits its keys in an order the runtime picks: order is that order. *)

HasPrefix(s, prefix) ==
    Len(prefix) <= Len(s) /\ SubSeq(s, 1, Len(prefix)) = prefix

\* the orders in which a range over the map m can visit its keys
IterationOrders(m) ==
    {order \in [1..Cardinality(DOMAIN m) -> DOMAIN m] :
        \A i, j \in DOMAIN order : order[i] = order[j] => i = j}

\* the map filled by m[keys[i]] = vals[i] for i = 1, 2, ...
MapOf(keys, vals) ==
    [k \in {keys[i] : i \in DOMAIN keys} |->
        vals[Max({i \in DOMAIN keys : keys[i] = k})]]

Const(name, value) == [const |-> name, value |-> value]

\* Stage4.constTokenTypes
constTokenTypes(l, h, order) ==
    LET names == [i \in 1..Len(l.tokenRules) |-> h[l.tokenRules[i]].name]
        tokens == builtinTokens \o
                  SortStrings(SelectSeq(names, LAMBDA n : ~HasPrefix(n, <<"_">>)))
        opNames == [i \in 1..Len(order) |-> <<"o", "p", "_">> \o l.operatorMap[order[i]]]
        m == MapOf(opNames, order)
        operators == SortStrings(opNames)
        keywords == SortStrings([i \in 1..Len(l.keywords) |->
                                    <<"k", "w", "_">> \o l.keywords[i]])
        tokenTypes == <<<<"d", "u", "m", "m", "y">>>> \o tokens \o operators \o keywords
        v(t) == IF t \in DOMAIN m /\ m[t] # <<>> THEN m[t] ELSE t
    IN  [i \in 1..Len(tokenTypes) |->
            Const(<<"T", "o", "k", "e", "n", "T", "y", "p", "e">> \o ToPascalCase(tokenTypes[i]), v(tokenTypes[i]))]

\* Stage32.genMemoIdConsts
genMemoIdConsts(l, h, order) ==
    LET memos == [i \in 1..Len(order) |-> l.memoIdMap[order[i]]]
        memoIds == MapOf(memos,
                         [i \in 1..Len(order) |->
                             Const(SafeName(ToCamelCase(h[order[i]].name))
                                   \o <<"M", "e", "m", "o", "I", "d">>, Itoa(memos[i]))])
        sorted == SortInts(memos)
    IN  [i \in 1..Len(sorted) |-> memoIds[sorted[i]]]

\* Stage32.run: the functions of the rules, in the order of GrammarRules()
ruleFunctions(l, h) ==
    [i \in 1..Len(l.grammarRules) |->
        SafeName(ToCamelCase(h[l.grammarRules[i]].name))]

\* what one run of the generators emits, the maps visited in these orders
Generate(l, h, opOrder, memoOrder) ==
    [op |-> genTokenizerOpCode(l),
     initKeywords |-> l.keywords,
     memoIdConsts |-> genMemoIdConsts(l, h, memoOrder),
     rules |-> ruleFunctions(l, h),
     tokenTypes |-> constTokenTypes(l, h, opOrder)]

MaxRuns == 2

GenOps == {<<"=">>, <<"<">>}

GenKeywords == {<<"i", "f">>, <<"d", "o">>}

NameAtom(name) == Atom("name-atom", name)

StringAtom(text) == Atom("string-atom", text)

AtomItem(atom) == Item("atom-item", atom)

GenTokenShapes ==
    {Rule(name, FALSE, <<Choice(<<AtomItem(StringAtom(<<"'", "x", "'">>))>>, <<>>)>>) :
        name \in {<<"n", "u", "m">>, <<"i", "d">>}}

GenGrammarShapes ==
    {Rule(name, TRUE, <<Choice(<<AtomItem(StringAtom(<<"'", "x", "'">>))>>, <<>>)>>) :
        name \in {<<"r">>, <<"m", "a", "p">>}}

\* Run calls the generators on the Language of stage 2, once more per run of
\* the program on the same text
RunGenerators ==
    /\ pc = "s31"
    /\ Len(out) < MaxRuns
    /\ \E opOrder \in IterationOrders(lang.operatorMap),
          memoOrder \in IterationOrders(lang.memoIdMap) :
          out' = Append(out, Generate(lang, heap, opOrder, memoOrder))
    /\ UNCHANGED <<splitVars, runVars, langVars, cls, tk, ast, ps>>

NextGen ==
    \/ parseTokenRules(GenTokenShapes)
    \/ parseKeywords(GenKeywords)
    \/ parseOperators(GenOps)
    \/ parseGrammarRules(GenGrammarShapes)
    \/ convertRules
    \/ RunGenerators

SpecGen == InitStage2 /\ [][NextGen]_vars

IsSorted(list, less(_, _)) ==
    \A i \in 1..(Len(list) - 1) : ~less(list[i + 1], list[i])

\* C4: two runs of the generators on one Language emit the same text whatever
\* order the operator map and the memo-id map are visited in: the operator
\* constants follow the builtin and token constants in ascending order of
\* op_<name>, the memo-id constants are in ascending order of id, the arms of
\* the operator switch are in ascending order of their character, and the
\* rule functions are in the order the rules were added.
C4_SameOutput ==
    \A i \in 1..Len(out) :
        /\ out[i] = out[1]
        /\ LET ops == SelectSeq(out[i].tokenTypes,
                                 LAMBDA c : c.value \in DOMAIN lang.operatorMap)
           IN  /\ {ops[k].value : k \in 1..Len(ops)} = DOMAIN lang.operatorMap
               /\ IsSorted([k \in 1..Len(ops) |-> lang.operatorMap[ops[k].value]],
                           StrLess)
        /\ IsSorted([k \in 1..Len(out[i].memoIdConsts) |->
                        out[i].memoIdConsts[k].value], StrLess)
        /\ IsSorted([k \in 1..Len(out[i].op) |-> out[i].op[k].arg], StrLess)
        /\ out[i].rules = ruleFunctions(lang, heap)

\* two runs over a Language whose two maps hold more than one key each, the
\* operators declared in descending order
C4_Witness ==
    /\ Len(out) = 2 /\ out[1] = out[2]
    /\ lang.operators = <<<<"=">>, <<"<">>>>
    /\ Cardinality(DOMAIN lang.memoIdMap) = 2
    /\ Len(lang.keywords) = 2 /\ Len(lang.tokenRules) = 2

----------------------------------------------------------------------------
(* Stage 2 on rules with groups: the trees and the memo ids it leaves      *)

\* the atoms and the choices the rules below are made of
StrX == StringAtom(<<"'", "x", "'">>)

StrY == StringAtom(<<"'", "y", "'">>)

One(atom) == Choice(<<AtomItem(atom)>>, <<>>)

Two(atom1, atom2) == Choice(<<AtomItem(atom1), AtomItem(atom2)>>, <<>>)

\* t: 'x'    t: ('x' | 'y')    u: ('x' | 'y') 'y'    u: (('x') | 'y')
S2TokenShapes ==
    {Rule(<<"t">>, FALSE, <<One(StrX)>>),
     Rule(<<"t">>, FALSE, <<One(Group(<<One(StrX), One(StrY)>>))>>),
     Rule(<<"u">>, FALSE, <<Two(Group(<<One(StrX), One(StrY)>>), StrY)>>),
     Rule(<<"u">>, FALSE, <<One(Group(<<One(Group(<<One(StrX)>>)), One(StrY)>>))>>)}

NameA == NameAtom(<<"a">>)

EitherA == Group(<<One(NameA), One(NameA)>>)

\* r: (a a)    r(memo): (a {x})    q: (a | a)    q(memo): ((a | a) a)
\* r: ((a a) | a)    q: (a | a).a+    r(memo): a
S2GrammarShapes ==
    {Rule(<<"r">>, FALSE, <<One(Group(<<Two(NameA, NameA)>>))>>),
     Rule(<<"r">>, TRUE, <<One(Group(<<Choice(<<AtomItem(NameA)>>, <<"x">>)>>))>>),
     Rule(<<"q">>, FALSE, <<One(EitherA)>>),
     Rule(<<"q">>, TRUE, <<One(Group(<<Two(EitherA, NameA)>>))>>),
     Rule(<<"r">>, FALSE, <<One(Group(<<Two(NameA, NameA), One(NameA)>>))>>),
     Rule(<<"q">>, FALSE, <<Choice(<<SepItem("separated-repeat-1-item", EitherA, NameA)>>, <<>>)>>),
     Rule(<<"r">>, TRUE, <<One(NameA)>>)}

NextS2 ==
    \/ parseTokenRules(S2TokenShapes)
    \/ parseGrammarRules(S2GrammarShapes)
    \/ convertRules

SpecS2 == InitStage2 /\ [][NextS2]_vars

\* the nodes of the trees of the rules, as Visit reaches them
Nodes(h, rules) ==
    With(rules, LAMBDA rs : UNION {Elems(Visit(h, rs[i])) : i \in 1..Len(rs)})

\* the rules the parsers added: the rewrite allocates the synthetic ones later
Written(rules) == SelectSeq(rules, LAMBDA r : r <= Len(parsed))

\* the group n as the parser left it had several choices, or one with an action
MustHoist(n) ==
    Len(parsed[n].children) > 1 \/ parsed[parsed[n].children[1]].action # Nil

\* n is now the name of a synthetic rule that holds the text of the group
Hoisted(n, rules) ==
    /\ heap[n].kind = "name-atom"
    /\ heap[n].children = <<>>
    /\ HasPrefix(heap[n].name, <<"_", "g", "r", "o", "u", "p", "_">>)
    /\ \E i \in 1..Len(rules) :
          /\ rules[i] > Len(parsed)
          /\ heap[rules[i]].kind = "rule"
          /\ heap[rules[i]].name = heap[n].name
          /\ heap[rules[i]].text = parsed[n].text
          /\ \E m \in 1..Len(parsed) :
                /\ parsed[m].kind = "group-atom"
                /\ parsed[m].text = parsed[n].text
                /\ heap[rules[i]].children = parsed[m].children

\* n is still a group and holds the items of what was its only choice
Flattened(n) ==
    /\ heap[n].kind = "group-atom"
    /\ heap[n].children = parsed[parsed[n].children[1]].children
    /\ \A k \in 1..Len(heap[n].children) : heap[heap[n].children[k]].parent = n

C8_ParentLinks ==
    pc = "s31" =>
        \A n \in Nodes(heap, lang.tokenRules) \cup Nodes(heap, lang.grammarRules) :
            \/ heap[n].parent = Nil
            \/ \E k \in 1..Len(heap[heap[n].parent].children) :
                  heap[heap[n].parent].children[k] = n
            \/ heap[heap[n].parent].separator = n

\* the memoized rules in the order they were added
MemoRules == SelectSeq(lang.grammarRules, LAMBDA r : heap[r].ruleMemo)

\* the ids are 0..k-1 in the order the memoized rules were added; a rule that
\* is not memoized, and a synthetic rule, has none
C9_IdsNow ==
    /\ DOMAIN lang.memoIdMap = {MemoRules[j] : j \in 1..Len(MemoRules)}
    /\ \A j \in 1..Len(MemoRules) : lang.memoIdMap[MemoRules[j]] = j - 1
    /\ \A i, j \in 1..Len(lang.grammarRules) :
          lang.grammarRules[i] = lang.grammarRules[j] => i = j
    /\ \A i \in 1..Len(lang.grammarRules) :
          (lang.grammarRules[i] > Len(parsed) \/ ~parsed[lang.grammarRules[i]].ruleMemo)
              => lang.grammarRules[i] \notin DOMAIN lang.memoIdMap

\* a step keeps every id that is assigned
C9_IdsKept ==
    \A r \in DOMAIN lang.memoIdMap :
        r \in DOMAIN lang.memoIdMap' /\ lang.memoIdMap'[r] = lang.memoIdMap[r]

\* C9: after any sequence of AddGrammarRule calls on distinct rules the ids in
\* memoIdMap are exactly 0..k-1, k the number of rules added that are marked
\* (memo): each memoized rule has its own id, the ids follow the order of
\* insertion, an id that is assigned never changes and goes to no other rule,
\* and a rule that is not marked (memo), a synthetic _group_N rule too, has
\* no id.
C9_MemoIds == []C9_IdsNow /\ [][C9_IdsKept]_vars

\* two memoized rules and the synthetic rule of the group of the first
C9_Witness ==
    /\ pc = "s31"
    /\ Len(lang.grammarRules) = 3
    /\ lang.grammarRules[3] > Len(parsed)
    /\ Cardinality(DOMAIN lang.memoIdMap) = 2
    /\ lang.memoIdMap[lang.grammarRules[2]] = 1

----------------------------------------------------------------------------
(* Stage32: the choices of a rule sorted into left-recursive and simple    *)

\* the mutant of Continues: the walk goes on after a Repeat1Item too
ContinuesAlso(kind) ==
    kind \in {"optional-item", "repeat-0-item", "separated-repeat-0-item",
              "negative-lookahead-item", "repeat-1-item"}

\* the item kinds after which gramLeftMost returns true
Continues(kind) ==
    kind \in {"optional-item", "repeat-0-item", "separated-repeat-0-item",
              "negative-lookahead-item"}

\* Stage32.gramLeftMost: cont and the map leftmost as the call leaves it
RECURSIVE gramLeftMost(_, _, _)
gramLeftMost(h, node, leftmost) ==
    LET RECURSIVE items(_, _)
        items(i, lm) ==
            IF i > Len(h[node].children) THEN lm
            ELSE With(gramLeftMost(h, h[node].children[i], lm),
                      LAMBDA r : IF r.cont THEN items(i + 1, r.leftmost)
                                 ELSE r.leftmost)
        below == IF Child(h, node) # Nil
                 THEN gramLeftMost(h, Child(h, node), leftmost).leftmost
                 ELSE leftmost
    IN  CASE h[node].kind = "choice" ->
                 [cont |-> FALSE, leftmost |-> items(1, leftmost)]
          [] Continues(h[node].kind) -> [cont |-> TRUE, leftmost |-> below]
          [] h[node].kind \in {"repeat-1-item", "atom-item",
                               "separated-repeat-1-item",
                               "positive-lookahead-item"} ->
                 [cont |-> FALSE, leftmost |-> below]
          [] h[node].kind = "name-atom" ->
                 [cont |-> FALSE, leftmost |-> leftmost \cup {h[node].text}]
          [] OTHER -> [cont |-> FALSE, leftmost |-> leftmost]

\* Stage32.genGrammarRuleCode: the two lists and the emitter that is called
genGrammarRuleCode(h, rule) ==
    LET isLeftRec(choice) == h[rule].name \in gramLeftMost(h, choice, {}).leftmost
    IN  With(SelectSeq(h[rule].children, isLeftRec),
             LAMBDA leftRecChoices :
                 [rule |-> rule,
                  leftRecChoices |-> leftRecChoices,
                  simpleChoices |-> SelectSeq(h[rule].children,
                                              LAMBDA c : ~isLeftRec(c)),
                  emitted |-> IF Len(leftRecChoices) > 0
                              THEN "gramLeftRecRuleCode"
                              ELSE "gramSimpleRuleCode"])

----------------------------------------------------------------------------
(* Stage32: the parser functions it emits, as statements                   *)

\* the statements of the emitted code, named after their Go text
\* `if v == nil {` body `}`
IfNil(v, body) == [op |-> "if-nil", var |-> v, body |-> body]

\* `if len(v) == 0 {` `return` e `}`
IfEmptyReturn(v, e) == [op |-> "if-empty-return", var |-> v, expr |-> e]

\* v `=` e
Assign(v, e) == [op |-> "assign", var |-> v, expr |-> e]

\* v `:= &`type`{`fields`}`
New(v, type, fields) == [op |-> "new", var |-> v, type |-> type, fields |-> fields]

\* `creationHook(`v`)`
CallCreationHook(v) == [op |-> "creationHook", var |-> v]

\* `return` v
ReturnVar(v) == [op |-> "return", var |-> v]

\* `return &`type`{`fields`}`
ReturnNew(type, fields) == [op |-> "return-new", type |-> type, fields |-> fields]

\* `for {` body `}`
For(body) == [op |-> "for", body |-> body]

\* `for` v `!= nil {` body `}`
ForNotNil(v, body) == [op |-> "for-not-nil", var |-> v, body |-> body]

\* `var` v `Node`
Var(v) == [op |-> "var", var |-> v]

\* v `:= make([]Node, 0)`
MakeNodes(v) == [op |-> "make", var |-> v]

\* v `= append(`v`, `e`)`
AppendNode(v, e) == [op |-> "append", var |-> v, expr |-> e]

\* v `= NewNodesNode(`e`)`
SetNodesNode(v, e) == [op |-> "nodes", var |-> v, expr |-> e]

\* `_ =` v
Discard(v) == [op |-> "discard", var |-> v]

\* v `:= ps._mark()`
Mark(v) == [op |-> "mark", var |-> v]

\* `ps._reset(`v`)`
Reset(v) == [op |-> "reset", var |-> v]

\* v `= ps.`fn`(`args`)`
SetCall(v, fn, args) == [op |-> "call", var |-> v, fn |-> fn, args |-> args]

\* v `= ps._expectK(`kind`)`, v `= ps._expectV("`val`")`, v `= ps._anyToken()`
SetExpectK(v, kind) == [op |-> "expectK", var |-> v, kind |-> kind]

SetExpectV(v, val) == [op |-> "expectV", var |-> v, val |-> val]

SetAnyToken(v) == [op |-> "anyToken", var |-> v]

\* `if` v `!= nil {` body `}`
IfNotNil(v, body) == [op |-> "if-not-nil", var |-> v, body |-> body]

\* `if` v `== nil {` then `} else {` else `}`
IfNilElse(v, then, else) ==
    [op |-> "if-nil-else", var |-> v, body |-> then, else |-> else]

Break == [op |-> "break"]

\* v `:= false`, v `= true`
SetBool(v, b) == [op |-> "bool", var |-> v, val |-> b]

\* `if` v `{` body `}` and `if !`v `{` body `}`
IfBool(v, b, body) == [op |-> "if-bool", var |-> v, val |-> b, body |-> body]

\* `panic("this should never happen")` of the generator: nothing is emitted
Panic == [op |-> "panic"]

\* the memo wrapper: `if cacheAtPos != nil { if cache, ok = cacheAtPos[`id`];
\* ok {` body `} } else { ... }`, `if cache.val == nil {` body `}`,
\* `ps._reset(cache.pos)`, `return cache.val`, and
\* `cacheAtPos[`id`] = &NodeCache{`v`, ps._mark()}`
IfCached(id, body) == [op |-> "if-cached", id |-> id, body |-> body]

IfCachedNil(body) == [op |-> "if-cached-nil", body |-> body]

ResetCached == [op |-> "reset-cached"]

ReturnCached == [op |-> "return-cached"]

Store(id, v) == [op |-> "store", id |-> id, var |-> v]

\* `ps._enter()` and `ps._leave()`
Enter == [op |-> "enter"]

Leave == [op |-> "leave"]

\* a `}` that closes the block around the statements before it, and a
\* `for {` that no `}` of the item code closes
CloseBrace == [op |-> "}"]

OpenFor == [op |-> "for {"]

\* the statements put for an item of this kind whose variable is v, from the
\* first to the last, kept together
ItemCode(kind, v, body) == [op |-> "item", kind |-> kind, var |-> v, body |-> body]

\* `v := n`, `v++` or `v--`, and `if v == 0 { body }`
SetInt(v, n) == [op |-> "int", var |-> v, val |-> n]

AddInt(v, k) == [op |-> "add", var |-> v, val |-> k]

IfZero(v, body) == [op |-> "if-zero", var |-> v, body |-> body]

\* `v = ps._pseudoToken(first, last)`
SetPseudoToken(v, first, last) ==
    [op |-> "pseudoToken", var |-> v, first |-> first, last |-> last]

\* `func (ps *Parser)` name `(`params`) Node {` body `}`
Func(name, params, body) == [name |-> name, params |-> params, body |-> body]

\* the generator: the statements put so far and the table of its variables
NewGen(table) == [code |-> <<>>, table |-> table]

Put(g, stmt) == [g EXCEPT !.code = Append(@, stmt)]

\* VariableManager.clearVar: the table is the reserved names again
clearVar(g) == [g EXCEPT !.table = reservedVariables]

\* the mutant of createVar: the name returned is not kept in the table
createVarNotKept(g, s) ==
    LET name == IF HasPrefix(s, <<"_">>) THEN s ELSE <<"_">> \o s
        RECURSIVE free(_)
        free(index) == IF name \o Itoa(index) \in g.table THEN free(index + 1)
                       ELSE name \o Itoa(index)
        newName == IF name \in g.table THEN free(1) ELSE name
    IN  [name |-> newName, g |-> g]

\* VariableManager.createVar: the first of name, name1, name2, ... not in
\* the table
createVar(g, s) ==
    LET name == IF HasPrefix(s, <<"_">>) THEN s ELSE <<"_">> \o s
        RECURSIVE free(_)
        free(index) == IF name \o Itoa(index) \in g.table THEN free(index + 1)
                       ELSE name \o Itoa(index)
        newName == IF name \in g.table THEN free(1) ELSE name
    IN  [name |-> newName, g |-> [g EXCEPT !.table = @ \cup {newName}]]

\* the mutant of gramSepLoop: the position is not reset when the item after
\* a separator fails
gramSepLoopNoReset(code, posVar, tmpVar, itemVar) ==
    <<For(code \o <<IfNil(itemVar, <<Break>>), AppendNode(tmpVar, itemVar)>>)>>

\* the loop of SeparatedRepeat0Item and SeparatedRepeat1Item around code,
\* the statements from `posVar := ps._mark()` to the parse of the item
gramSepLoop(code, posVar, tmpVar, itemVar) ==
    <<For(code \o <<IfNil(itemVar, <<Reset(posVar), Break>>),
                    AppendNode(tmpVar, itemVar)>>)>>

\* Stage32.gramItemNames
RECURSIVE gramItemNames(_, _, _)
gramItemNames(h, node, names) ==
    LET RECURSIVE each(_, _)
        each(i, ns) == IF i > Len(h[node].children) THEN ns
                       ELSE each(i + 1, gramItemNames(h, h[node].children[i], ns))
    IN  CASE h[node].kind \in {"choice", "group-atom"} -> each(1, names)
          [] h[node].kind \in {"optional-item", "repeat-0-item",
                               "separated-repeat-0-item", "negative-lookahead-item",
                               "repeat-1-item", "atom-item",
                               "separated-repeat-1-item",
                               "positive-lookahead-item"} ->
                 With(IF h[node].name # <<>> THEN Append(names, h[node].name)
                      ELSE names,
                      LAMBDA ns : IF Child(h, node) # Nil
                                  THEN gramItemNames(h, Child(h, node), ns)
                                  ELSE ns)
          [] OTHER -> names

\* `if itemName == "" { itemName = s.Gen.CreateVar("_"); var itemName Node }`
ItemVar(g, itemName) ==
    IF itemName # <<>> THEN [name |-> itemName, g |-> g]
    ELSE With(createVar(g, <<"_">>),
              LAMBDA v : [name |-> v.name, g |-> Put(v.g, Var(v.name))])

\* Stage32.gramCode: the generator after the code of node is put
RECURSIVE gramCode(_, _, _, _, _, _)
gramCode(l, h, node, itemName, leftVar, g) ==
    LET kind == h[node].kind
        child(name, gen) == gramCode(l, h, Child(h, node), name, <<>>, gen)
        separator(name, gen) == gramCode(l, h, h[node].separator, name, <<>>, gen)
        \* the loop over the items of a choice: outers holds the statements
        \* before each `for {` of a suffix `[` that is still open
        RECURSIVE items(_, _, _, _)
        items(i, gen, outers, breakVar) ==
            IF i > Len(h[node].children)
            THEN IF outers = <<>> THEN gen
                 ELSE [gen EXCEPT !.code =
                          Concat([k \in 1..Len(outers) |-> Append(outers[k], OpenFor)])
                          \o @]
            ELSE LET item == h[node].children[i]
                     closed == <<SetBool(breakVar, FALSE), Break>>
                     left == <<Leave, IfBool(breakVar, TRUE, <<Break>>)>>
                 IN  IF leftVar # <<>> /\ i = 1
                     THEN items(i + 1, Put(gen, Assign(h[item].name, leftVar)),
                                outers, breakVar)
                     ELSE With(gramCode(l, h, item, h[item].name, <<>>, gen),
                               LAMBDA next :
                          IF h[item].suffix = "["
                          THEN With(createVar(next, <<"b", "r", "e", "a", "k">>),
                                    LAMBDA v :
                                        items(i + 1, NewGen(v.g.table),
                                              Append(outers,
                                                     next.code \o <<SetBool(v.name, TRUE), Enter>>),
                                              v.name))
                          ELSE IF h[item].suffix = "]"
                          THEN IF outers = <<>>
                               THEN items(i + 1,
                                          [next EXCEPT !.code =
                                              @ \o closed \o <<CloseBrace>> \o left],
                                          outers, breakVar)
                               ELSE items(i + 1,
                                          [next EXCEPT !.code =
                                              outers[Len(outers)]
                                              \o <<For(next.code \o closed)>> \o left],
                                          SubSeq(outers, 1, Len(outers) - 1), breakVar)
                          ELSE items(i + 1, next, outers, breakVar))
        names == SortStrings(gramItemNames(h, node, <<>>))
        return == IF h[node].action = Nil THEN ReturnVar(<<"_", "1">>)
                  ELSE IF h[h[node].action].kind = "null-action"
                  THEN ReturnVar(<<"d", "u", "m", "m", "y", "N", "o", "d", "e">>)
                  ELSE ReturnVar(h[h[node].action].text)
        \* the loop of SeparatedRepeat0Item and SeparatedRepeat1Item
        more(gen, tmpVar, itemVar, sepVar) ==
            With(createVar(gen, <<"p">>),
                 LAMBDA posVar :
            With(separator(sepVar, Put(NewGen(posVar.g.table), Mark(posVar.name))),
                 LAMBDA sep :
            With(child(itemVar, Put(sep, IfNil(sepVar, <<Break>>))),
                 LAMBDA it :
                     [table |-> it.table,
                      code |-> gramSepLoop(it.code, posVar.name, tmpVar, itemVar)])))
        \* the loop over the items of a GroupAtom: the generator and names
        RECURSIVE groupItems(_, _, _)
        groupItems(i, gen, ns) ==
            IF i > Len(h[node].children) THEN [g |-> gen, names |-> ns]
            ELSE LET item == h[node].children[i]
                     named == h[item].name # <<>>
                 IN  IF i = Len(h[node].children)
                     THEN [names |-> ns,
                           g |-> IF named
                                 THEN Put(gramCode(l, h, item, h[item].name, <<>>, gen),
                                          Assign(itemName, h[item].name))
                                 ELSE gramCode(l, h, item, itemName, <<>>, gen)]
                     ELSE With(ItemVar(gen, h[item].name),
                               LAMBDA v :
                                   With(gramCode(l, h, item, v.name, <<>>, v.g),
                                        LAMBDA next :
                                            groupItems(i + 1, next,
                                                IF named THEN Append(ns, v.name)
                                                ELSE ns)))
    IN  CASE kind = "choice" ->
                 With(items(1, [code |-> [i \in 1..Len(names) |-> Var(names[i])],
                                table |-> reservedVariables], <<>>, <<>>),
                      LAMBDA body :
                          [table |-> body.table,
                           code |-> Append(g.code, For(Append(body.code, return)))])
          [] kind = "optional-item" ->
                 With(ItemVar(g, itemName),
                      LAMBDA v : Put(child(v.name, v.g), Discard(v.name)))
          [] kind = "repeat-0-item" ->
                 With(ItemVar(g, itemName), LAMBDA v :
                 With(createVar(v.g, <<"_">>), LAMBDA tmpVar :
                 With(createVar(tmpVar.g, <<"_">>), LAMBDA itemVar :
                 With(child(itemVar.name, NewGen(itemVar.g.table)), LAMBDA body :
                     [table |-> body.table,
                      code |-> v.g.code
                          \o <<MakeNodes(tmpVar.name), Var(itemVar.name),
                               For(body.code \o <<IfNil(itemVar.name, <<Break>>),
                                     AppendNode(tmpVar.name, itemVar.name)>>),
                               SetNodesNode(v.name, tmpVar.name),
                               Discard(v.name)>>]))))
          [] kind = "repeat-1-item" ->
                 With(ItemVar(g, itemName), LAMBDA v :
                 With(createVar(v.g, <<"_">>), LAMBDA tmpVar :
                 With(createVar(tmpVar.g, <<"_">>), LAMBDA itemVar :
                 With(child(itemVar.name,
                            Put(Put(itemVar.g, MakeNodes(tmpVar.name)),
                                Var(itemVar.name))), LAMBDA first :
                 With(child(itemVar.name, NewGen(first.table)), LAMBDA body :
                     [table |-> body.table,
                      code |-> first.code
                          \o <<IfNil(itemVar.name, <<Break>>),
                               AppendNode(tmpVar.name, itemVar.name),
                               For(body.code \o <<IfNil(itemVar.name, <<Break>>),
                                     AppendNode(tmpVar.name, itemVar.name)>>),
                               SetNodesNode(v.name, tmpVar.name),
                               Discard(v.name)>>])))))
          [] kind \in {"separated-repeat-0-item", "separated-repeat-1-item"} ->
                 With(ItemVar(g, itemName), LAMBDA v :
                 With(createVar(v.g, <<"_">>), LAMBDA tmpVar :
                 With(createVar(tmpVar.g, <<"_">>), LAMBDA itemVar :
                 With(createVar(itemVar.g, <<"_">>), LAMBDA sepVar :
                 With(child(itemVar.name,
                            Put(Put(Put(sepVar.g, MakeNodes(tmpVar.name)),
                                    Var(itemVar.name)), Var(sepVar.name))),
                      LAMBDA first :
                 With(more(first, tmpVar.name, itemVar.name, sepVar.name),
                      LAMBDA loop :
                     [table |-> loop.table,
                      code |-> first.code
                          \o (IF kind = "separated-repeat-0-item"
                              THEN <<IfNotNil(itemVar.name,
                                         <<AppendNode(tmpVar.name, itemVar.name)>>
                                             \o loop.code)>>
                              ELSE <<IfNil(itemVar.name, <<Break>>),
                                     AppendNode(tmpVar.name, itemVar.name)>>
                                       \o loop.code)
                          \o <<SetNodesNode(v.name, tmpVar.name),
                               Discard(v.name)>>]))))))
          [] kind \in {"positive-lookahead-item", "negative-lookahead-item"} ->
                 With(ItemVar(g, itemName), LAMBDA v :
                 With(createVar(v.g, <<"p">>), LAMBDA posVar :
                 With(child(v.name, Put(NewGen(posVar.g.table), Mark(posVar.name))),
                      LAMBDA atom :
                     [table |-> atom.table,
                      code |-> Append(v.g.code,
                          ItemCode(kind, v.name,
                              atom.code
                              \o <<IfNotNil(v.name, <<Reset(posVar.name)>>),
                                    IF kind = "negative-lookahead-item"
                                    THEN IfNotNil(v.name, <<Break>>)
                                    ELSE IfNil(v.name, <<Break>>)>>))])))
          [] kind = "forward-if-not-match-item" ->
                 With(ItemVar(g, itemName), LAMBDA v :
                 With(createVar(v.g, <<"p">>), LAMBDA posVar :
                     Put(Put(child(v.name, Put(posVar.g, Mark(posVar.name))),
                             IfNotNil(v.name, <<Reset(posVar.name)>>)),
                         IfNilElse(v.name, <<SetAnyToken(v.name)>>, <<Break>>))))
          [] kind = "atom-item" ->
                 With(ItemVar(g, itemName),
                      LAMBDA v : Put(child(v.name, v.g), IfNil(v.name, <<Break>>)))
          [] kind = "name-atom" ->
                 Put(g, SetCall(itemName, SafeName(ToCamelCase(h[node].name)), <<>>))
          [] kind = "token-atom" ->
                 Put(g, SetExpectK(itemName,
                         <<"T", "o", "k", "e", "n", "T", "y", "p", "e">> \o ToPascalCase([i \in 1..Len(h[node].text) |->
                                                         ToLower(h[node].text[i])])))
          [] kind = "string-atom" ->
                 LET val == SubSeq(h[node].text, 2, Len(h[node].text) - 1)
                 IN  IF val \in DOMAIN l.operatorMap /\ l.operatorMap[val] # <<>>
                     THEN Put(g, SetExpectK(itemName,
                                 <<"T", "o", "k", "e", "n", "T", "y", "p", "e", "O", "p">> \o ToPascalCase(l.operatorMap[val])))
                     ELSE IF val \in l.keywordMap
                     THEN Put(g, SetExpectK(itemName,
                                 <<"T", "o", "k", "e", "n", "T", "y", "p", "e", "K", "w">> \o ToPascalCase(val)))
                     ELSE Put(g, SetExpectV(itemName, val))
          [] kind = "group-atom" ->
                 With(createVar(g, <<"o", "k">>), LAMBDA okVar :
                 With(createVar(okVar.g, <<"p">>), LAMBDA posVar :
                 With(groupItems(1, NewGen(posVar.g.table), <<>>), LAMBDA in :
                     [table |-> in.g.table,
                      code |-> Append(g.code,
                          For(<<SetBool(okVar.name, FALSE), Mark(posVar.name),
                                For(in.g.code \o <<SetBool(okVar.name, TRUE), Break>>),
                                IfBool(okVar.name, FALSE,
                                       <<Reset(posVar.name)>>
                                       \o [k \in 1..Len(in.names) |->
                                              Assign(in.names[k], <<"n", "i", "l">>)]),
                                Break>>))])))
          [] kind = "bracket-ellipsis-atom" ->
                 With(createVar(g, <<"f", "i", "r", "s", "t">>), LAMBDA firstVar :
                 With(createVar(firstVar.g, <<"l", "a", "s", "t">>), LAMBDA lastVar :
                 With(createVar(lastVar.g, <<"d", "e", "p", "t", "h">>), LAMBDA depthVar :
                     LET text == h[node].text
                         leftBracket == SubSeq(text, 1, 2)
                         rightBracket == SubSeq(text, Len(text) - 1, Len(text))
                         \* `if ps._expectV(..) != nil {` is written with the
                         \* blank identifier holding the value tested
                         scan ==
                             <<SetExpectV(<<"_">>, leftBracket),
                               IfNilElse(<<"_">>,
                                   <<SetExpectV(lastVar.name, rightBracket),
                                     IfNilElse(lastVar.name,
                                         <<SetExpectK(<<"_">>, <<"T", "o", "k", "e", "n", "T", "y", "p", "e", "E", "n", "d", "O", "f", "F", "i", "l", "e">>),
                                           IfNilElse(<<"_">>,
                                               <<SetAnyToken(<<"_">>)>>,
                                               <<Panic>>)>>,
                                         <<AddInt(depthVar.name, -1),
                                           IfZero(depthVar.name, <<Break>>)>>)>>,
                                   <<AddInt(depthVar.name, 1)>>)>>
                     IN  Put(depthVar.g,
                             For(<<Var(firstVar.name), Var(lastVar.name),
                                   SetExpectV(firstVar.name, leftBracket),
                                   IfNil(firstVar.name, <<Break>>),
                                   SetInt(depthVar.name, 1),
                                   For(scan),
                                   SetPseudoToken(itemName, firstVar.name,
                                                  lastVar.name),
                                   Break>>)))))
          [] OTHER -> Put(g, Panic)

\* Stage32.gramChoicesCode
gramChoicesCode(l, h, choices, leftVar) ==
    LET needMarkReset(c) == Len(h[c].children) > 1 \/ h[c].action # Nil
        RECURSIVE each(_, _, _)
        each(i, posDefined, code) ==
            IF i > Len(choices) THEN code
            ELSE LET c == choices[i]
                 IN  With(gramCode(l, h, c, <<>>, leftVar, NewGen(reservedVariables)),
                          LAMBDA g :
                              each(i + 1, posDefined \/ needMarkReset(c),
                                   code
                                   \o (IF needMarkReset(c) /\ ~posDefined
                                       THEN <<Mark(<<"p", "o", "s">>)>> ELSE <<>>)
                                   \o g.code
                                   \o (IF needMarkReset(c)
                                       THEN <<Reset(<<"p", "o", "s">>)>> ELSE <<>>)))
    IN  each(1, FALSE, <<>>)

\* Stage32.gramMemoCode
gramMemoCode(funName) ==
    Func(funName, <<>>,
         <<Mark(<<"p", "o", "s">>),
           IfCached(funName \o <<"M", "e", "m", "o", "I", "d">>,
                    <<IfCachedNil(<<ReturnVar(<<"n", "i", "l">>)>>),
                      ResetCached,
                      ReturnCached>>),
           SetCall(<<"t">>, funName \o <<"_">>, <<>>),
           Store(funName \o <<"M", "e", "m", "o", "I", "d">>, <<"t">>),
           ReturnVar(<<"t">>)>>)

\* the functions of a rule: the memo wrapper when the rule is (memo), then
\* those that f gives for the name of the body
RuleFuncs(h, rule, f(_)) ==
    LET funName == SafeName(ToCamelCase(h[rule].name))
    IN  IF h[rule].ruleMemo
        THEN <<gramMemoCode(funName)>> \o f(funName \o <<"_">>)
        ELSE f(funName)

\* Stage32.gramSimpleRuleCode
gramSimpleRuleCode(l, h, rule) ==
    RuleFuncs(h, rule,
              LAMBDA funName :
                  <<Func(funName, <<>>,
                         Append(gramChoicesCode(l, h, h[rule].children, <<>>),
                                ReturnVar(<<"n", "i", "l">>)))>>)

\* the mutant of Driver: right part is called on a nil left too
DriverNoCheck(funName, camelName) ==
    Func(funName, <<>>,
         <<SetCall(<<"_", "l", "e", "f", "t">>, camelName \o <<"L", "e", "f", "t", "M", "o", "s", "t">>, <<>>),
           SetCall(<<"_", "r", "e", "t">>, camelName \o <<"R", "i", "g", "h", "t", "P", "a", "r", "t">>, <<<<"_", "l", "e", "f", "t">>>>),
           ForNotNil(<<"_", "r", "e", "t">>,
                     <<Assign(<<"_", "l", "e", "f", "t">>, <<"_", "r", "e", "t">>),
                       SetCall(<<"_", "r", "e", "t">>, camelName \o <<"R", "i", "g", "h", "t", "P", "a", "r", "t">>, <<<<"_", "l", "e", "f", "t">>>>)>>),
           ReturnVar(<<"_", "l", "e", "f", "t">>)>>)

\* the function of a left-recursive rule that drives the iteration
Driver(funName, camelName) ==
    Func(funName, <<>>,
         <<SetCall(<<"_", "l", "e", "f", "t">>, camelName \o <<"L", "e", "f", "t", "M", "o", "s", "t">>, <<>>),
           IfNil(<<"_", "l", "e", "f", "t">>, <<ReturnVar(<<"n", "i", "l">>)>>),
           SetCall(<<"_", "r", "e", "t">>, camelName \o <<"R", "i", "g", "h", "t", "P", "a", "r", "t">>, <<<<"_", "l", "e", "f", "t">>>>),
           ForNotNil(<<"_", "r", "e", "t">>,
                     <<Assign(<<"_", "l", "e", "f", "t">>, <<"_", "r", "e", "t">>),
                       SetCall(<<"_", "r", "e", "t">>, camelName \o <<"R", "i", "g", "h", "t", "P", "a", "r", "t">>, <<<<"_", "l", "e", "f", "t">>>>)>>),
           ReturnVar(<<"_", "l", "e", "f", "t">>)>>)

\* Stage32.gramLeftRecRuleCode
gramLeftRecRuleCode(l, h, rule, leftRecChoices, simpleChoices) ==
    LET camelName == ToCamelCase(h[rule].name)
    IN  RuleFuncs(h, rule,
                  LAMBDA funName :
                      <<Driver(funName, camelName),
                        Func(camelName \o <<"L", "e", "f", "t", "M", "o", "s", "t">>, <<>>,
                             Append(gramChoicesCode(l, h, simpleChoices, <<>>),
                                    ReturnVar(<<"n", "i", "l">>))),
                        Func(camelName \o <<"R", "i", "g", "h", "t", "P", "a", "r", "t">>, <<<<"_", "l", "e", "f", "t">>>>,
                             Append(gramChoicesCode(l, h, leftRecChoices, <<"_", "l", "e", "f", "t">>),
                                    ReturnVar(<<"n", "i", "l">>)))>>)

\* the functions genGrammarRuleCode puts for a rule
Emitted(l, h, rule) ==
    With(genGrammarRuleCode(h, rule),
         LAMBDA c : IF c.emitted = "gramLeftRecRuleCode"
                    THEN gramLeftRecRuleCode(l, h, rule, c.leftRecChoices,
                                             c.simpleChoices)
                    ELSE gramSimpleRuleCode(l, h, rule))

\* s32 := stages.RunStage32(s2): Stage32.run calls genGrammarRuleCode on the
\* rules in the order of GrammarRules()
genGrammarRules ==
    /\ pc = "s32"
    /\ cls' = [i \in 1..Len(lang.grammarRules) |->
                  genGrammarRuleCode(heap, lang.grammarRules[i])]
    /\ out' = Concat([i \in 1..Len(lang.grammarRules) |->
                         Emitted(lang, heap, lang.grammarRules[i])])
    /\ s3Error' = [s3Error EXCEPT ![2] = NewError]
    /\ stagesRun' = Append(stagesRun, "S32")
    /\ pc' = "s33"
    /\ UNCHANGED <<splitVars, s2Error, s4, ret, langVars, tk, ast, ps>>

NameR == NameAtom(<<"r">>)

Seq2(item1, item2) == Choice(<<item1, item2>>, <<>>)

\* r: r a          r: a r | r a    r: a? r         r: a* r
\* r: a+ r         r: !a r         r: &a r         r: a.r* a
\* r: r.a* a       r: a.a+ r       r: ~r a         r: (r a) a
\* r: (r | a) a    _group_1: (a | a) a
\* r: l=r a        r: x=a? l=r
LeftShapes ==
    {Rule(<<"r">>, FALSE, <<Two(NameR, NameA)>>),
     Rule(<<"r">>, FALSE, <<Two(NameA, NameR), Two(NameR, NameA)>>),
     Rule(<<"r">>, FALSE, <<Seq2(Item("optional-item", NameA), AtomItem(NameR))>>),
     Rule(<<"r">>, FALSE, <<Seq2(Item("repeat-0-item", NameA), AtomItem(NameR))>>),
     Rule(<<"r">>, FALSE, <<Seq2(Item("repeat-1-item", NameA), AtomItem(NameR))>>),
     Rule(<<"r">>, FALSE, <<Seq2(Item("negative-lookahead-item", NameA), AtomItem(NameR))>>),
     Rule(<<"r">>, FALSE, <<Seq2(Item("positive-lookahead-item", NameA), AtomItem(NameR))>>),
     Rule(<<"r">>, FALSE, <<Seq2(SepItem("separated-repeat-0-item", NameA, NameR), AtomItem(NameA))>>),
     Rule(<<"r">>, FALSE, <<Seq2(SepItem("separated-repeat-0-item", NameR, NameA), AtomItem(NameA))>>),
     Rule(<<"r">>, FALSE, <<Seq2(SepItem("separated-repeat-1-item", NameA, NameA), AtomItem(NameR))>>),
     Rule(<<"r">>, FALSE, <<Seq2(Item("forward-if-not-match-item", NameR), AtomItem(NameA))>>),
     Rule(<<"r">>, FALSE, <<Two(Group(<<Two(NameR, NameA)>>), NameA)>>),
     Rule(<<"r">>, FALSE, <<Two(Group(<<One(NameR), One(NameA)>>), NameA)>>),
     Rule(<<"_", "g", "r", "o", "u", "p", "_", "1">>, FALSE, <<Two(EitherA, NameA)>>),
     Rule(<<"r">>, FALSE, <<Seq2(Labelled(<<"l">>, AtomItem(NameR)), AtomItem(NameA))>>),
     Rule(<<"r">>, FALSE, <<Seq2(Labelled(<<"x">>, Item("optional-item", NameA)),
                                Labelled(<<"l">>, AtomItem(NameR)))>>)}

NextLeft ==
    \/ parseGrammarRules(LeftShapes)
    \/ convertRules
    \/ RunS31
    \/ genGrammarRules

SpecLeft == InitStage2 /\ [][NextLeft]_vars

\* the items of the choice c that the walk of the claim records from: those
\* of the eight kinds with only items it continues after before them
Reached(c) ==
    {i \in 1..Len(heap[c].children) :
        /\ heap[heap[c].children[i]].kind \in
               {"optional-item", "repeat-0-item", "separated-repeat-0-item",
                "negative-lookahead-item", "repeat-1-item", "atom-item",
                "separated-repeat-1-item", "positive-lookahead-item"}
        /\ \A j \in 1..(i - 1) :
              heap[heap[c].children[j]].kind \in
                  {"optional-item", "repeat-0-item", "separated-repeat-0-item",
                   "negative-lookahead-item"}}

\* the NameAtoms the walk reaches in c
LeftmostAtoms(c) ==
    {a \in {Child(heap, heap[c].children[i]) : i \in Reached(c)} :
        a # Nil /\ heap[a].kind = "name-atom"}

\* every choice of every rule is in the list the set says, and the rule is
\* emitted by gramLeftRecRuleCode iff some choice of it is left-recursive
ClassifiedBy(LeftRec(_, _)) ==
    pc = "s33" =>
        /\ Len(cls) = Len(lang.grammarRules)
        /\ \A i \in 1..Len(cls) :
              LET R == lang.grammarRules[i]
              IN  /\ cls[i].rule = R
                  /\ \A k \in 1..Len(heap[R].children) :
                        LET c == heap[R].children[k]
                        IN  /\ LeftRec(R, c) <=> c \in Elems(cls[i].leftRecChoices)
                            /\ ~LeftRec(R, c) <=> c \in Elems(cls[i].simpleChoices)
                  /\ (cls[i].emitted = "gramLeftRecRuleCode") <=>
                        \E k \in 1..Len(heap[R].children) :
                            LeftRec(R, heap[R].children[k])

----------------------------------------------------------------------------
(* Stage33: the constructors of the declared AST nodes, and what a call of *)
(* an emitted constructor does.  The body of a constructor is the list of  *)
(* the statements that were put; a value is nil, a node or a list of nodes. *)

\* models.NewName
NewName(val) ==
    [normal |-> SafeName(val), camel |-> SafeName(ToCamelCase(val)),
     pascal |-> ToPascalCase(val)]

\* models.NewAstNode
NewAstNode(name, args) ==
    [name |-> name, args |-> [i \in 1..Len(args) |-> NewName(args[i])]]

\* Language.AddAstNode
AddAstNode(l, node) == [l EXCEPT !.astNodes = Append(@, node)]

\* Stage33.nodeInterfaceAndStructs: the function New<Pascal>Node of a node
nodeConstructor(node) ==
    LET pascalName == ToPascalCase(node.name)
        camels == [i \in 1..Len(node.args) |-> node.args[i].camel]
    IN  [name |-> <<"N", "e", "w">> \o pascalName \o <<"N", "o", "d", "e">>,
         params |-> camels,
         body |-> [i \in 1..Len(camels) |->
                      IfNil(camels[i], <<Assign(camels[i], <<"d", "u", "m", "m", "y", "N", "o", "d", "e">>)>>)]
                  \o <<ReturnNew(pascalName \o <<"N", "o", "d", "e">>, camels)>>]

\* snippet.NodesNodeStruct: the function NewNodesNode
NodesNodeStruct ==
    [name |-> <<"N", "e", "w", "N", "o", "d", "e", "s", "N", "o", "d", "e">>,
     params |-> <<<<"n", "o", "d", "e", "s">>>>,
     body |-> <<IfEmptyReturn(<<"n", "o", "d", "e", "s">>, <<"D", "u", "m", "m", "y", "N", "o", "d", "e">>),
                New(<<"r", "e", "t">>, <<"N", "o", "d", "e", "s", "N", "o", "d", "e">>, <<<<"n", "o", "d", "e", "s">>>>),
                CallCreationHook(<<"r", "e", "t">>),
                ReturnVar(<<"r", "e", "t">>)>>]

\* nil, as a value of the type Node
NilNode == [type |-> <<>>, fields |-> <<>>]

\* the node that dummyNode and DummyNode name, and a token node
DummyNode == [type |-> <<"B", "a", "s", "e", "N", "o", "d", "e">>, fields |-> <<>>]

TokenNode == [type |-> <<"T", "o", "k", "e", "n", "N", "o", "d", "e">>, fields |-> <<>>]

\* the value of an identifier
ValueOf(e, env) ==
    IF e \in DOMAIN env THEN env[e]
    ELSE IF e \in {<<"d", "u", "m", "m", "y", "N", "o", "d", "e">>, <<"D", "u", "m", "m", "y", "N", "o", "d", "e">>} THEN DummyNode
    ELSE NilNode

\* one statement of an emitted function run on the frame fr: its variables,
\* the nodes creationHook was called on, and what is returned
RECURSIVE execEmitted(_, _, _)
execEmitted(body, i, fr) ==
    IF i > Len(body) \/ fr.returned THEN fr
    ELSE LET s == body[i]
             node == [type |-> s.type,
                      fields |-> [j \in 1..Len(s.fields) |-> fr.env[s.fields[j]]]]
         IN  With(CASE s.op = "if-nil" ->
                           IF fr.env[s.var] = NilNode
                           THEN execEmitted(s.body, 1, fr) ELSE fr
                    [] s.op = "if-empty-return" ->
                           IF fr.env[s.var] = <<>>
                           THEN [fr EXCEPT !.returned = TRUE,
                                           !.ret = ValueOf(s.expr, fr.env)]
                           ELSE fr
                    [] s.op = "assign" ->
                           [fr EXCEPT !.env = MapPut(@, s.var, ValueOf(s.expr, fr.env))]
                    [] s.op = "new" -> [fr EXCEPT !.env = MapPut(@, s.var, node)]
                    [] s.op = "creationHook" ->
                           [fr EXCEPT !.hooks = Append(@, fr.env[s.var])]
                    [] s.op = "return" ->
                           [fr EXCEPT !.returned = TRUE, !.ret = fr.env[s.var]]
                    [] s.op = "return-new" ->
                           [fr EXCEPT !.returned = TRUE, !.ret = node],
                  LAMBDA next : execEmitted(body, i + 1, next))

\* a call of an emitted function on the arguments args
CallEmitted(ctor, args) ==
    execEmitted(ctor.body, 1,
                [env |-> MapOf(ctor.params, args), hooks |-> <<>>,
                 returned |-> FALSE, ret |-> NilNode])

MaxNodes == 2

MaxCalls == 2

\* unary <x>    binary_expr <left_op right_op>    type_ref <type>
NodeDecls ==
    {[name |-> <<"u", "n", "a", "r", "y">>, args |-> <<<<"x">>>>],
     [name |-> <<"b", "i", "n", "a", "r", "y", "_", "e", "x", "p", "r">>, args |-> <<<<"l", "e", "f", "t", "_", "o", "p">>, <<"r", "i", "g", "h", "t", "_", "o", "p">>>>],
     [name |-> <<"t", "y", "p", "e", "_", "r", "e", "f">>, args |-> <<<<"t", "y", "p", "e">>>>]}

\* Stage2.parseNodes on a line that nodeRegex admits
parseNodes(decls) ==
    /\ pc = "s2"
    /\ lang.grammarRules = <<>>
    /\ Len(lang.astNodes) < MaxNodes
    /\ \E d \in decls : lang' = AddAstNode(lang, NewAstNode(d.name, d.args))
    /\ UNCHANGED <<splitVars, runVars, heap, parsed, emitVars, bp>>

\* s33 := stages.RunStage33(s2): the constructors are emitted; Run returns
\* when one of the three generators failed
nodeInterfaceAndStructs ==
    /\ pc = "s33"
    /\ ast' = [ast EXCEPT !.ctors = [i \in 1..Len(lang.astNodes) |->
                                        nodeConstructor(lang.astNodes[i])]]
    /\ s3Error' = [i \in 1..3 |->
                      ToErrorState(IF i = 3 THEN NewError ELSE s3Error[i])]
    /\ stagesRun' = Append(stagesRun, "S33")
    /\ IF \E i \in 1..3 : StageFailed(s3Error'[i])
       THEN /\ pc' = "done"
            /\ ret' = Return(<<>>, [nil |-> FALSE, msg |-> S3Message(s3Error')])
       ELSE pc' = "s4" /\ UNCHANGED ret
    /\ UNCHANGED <<splitVars, s2Error, s4, langVars, cls, tk, out, ps>>

\* the emitted module was returned; a caller constructs a declared node
CallConstructor ==
    /\ pc = "done" /\ ret.err = NilError
    /\ Len(ast.made) < MaxCalls
    /\ \E i \in 1..Len(ast.ctors) :
          \E args \in [1..Len(ast.ctors[i].params) -> {NilNode, TokenNode}] :
              \E fr \in {CallEmitted(ast.ctors[i], args)} :
                  ast' = [ast EXCEPT !.made = Append(@,
                             [ctor |-> ast.ctors[i].name, declared |-> TRUE,
                              args |-> args, node |-> fr.ret, hooks |-> fr.hooks])]
    /\ UNCHANGED <<splitVars, runVars, langVars, cls, tk, out, ps>>

\* a caller constructs a list of nodes with NewNodesNode
CallNewNodesNode ==
    /\ pc = "done" /\ ret.err = NilError
    /\ Len(ast.made) < MaxCalls
    /\ \E nodes \in {<<>>, <<TokenNode>>} :
          \E fr \in {CallEmitted(NodesNodeStruct, <<nodes>>)} :
              ast' = [ast EXCEPT !.made = Append(@,
                         [ctor |-> NodesNodeStruct.name, declared |-> FALSE,
                          args |-> <<nodes>>, node |-> fr.ret, hooks |-> fr.hooks])]
    /\ UNCHANGED <<splitVars, runVars, langVars, cls, tk, out, ps>>

NextNode ==
    \/ parseNodes(NodeDecls)
    \/ convertRules
    \/ RunS31
    \/ RunS32
    \/ nodeInterfaceAndStructs
    \/ RunS4
    \/ CallConstructor
    \/ CallNewNodesNode

SpecNode == InitStage2 /\ [][NextNode]_vars

\* C10: the emitted constructor of every declared AST node puts dummyNode in
\* the place of each nil argument and calls creationHook on the node it has
\* made before it returns it.
C10_ConstructorHooks ==
    \A k \in 1..Len(ast.made) :
        ast.made[k].declared =>
            /\ ast.made[k].node.fields =
                   [j \in 1..Len(ast.made[k].args) |->
                       IF ast.made[k].args[j] = NilNode THEN DummyNode
                       ELSE ast.made[k].args[j]]
            /\ ast.made[k].hooks = <<ast.made[k].node>>

----------------------------------------------------------------------------
(* The lists of the Language after the sections are parsed                 *)

NoDuplicate(list) == \A i, j \in 1..Len(list) : list[i] = list[j] => i = j

\* C11: the keyword list and the operator list of the Language hold each
\* declared entry once, in the order of declaration: a keyword or an operator
\* declared on two lines is in its list once.
C11_ListsUnique ==
    /\ NoDuplicate(lang.keywords)
    /\ NoDuplicate(lang.operators)
    /\ {lang.keywords[i] : i \in 1..Len(lang.keywords)} = lang.keywordMap
    /\ {lang.operators[i] : i \in 1..Len(lang.operators)} = DOMAIN lang.operatorMap

----------------------------------------------------------------------------
(* models.Error under any sequence of AddError and ToError calls: the bag  *)
(* is s2Error, lines is the list of the errors added so far and ret holds  *)
(* what the last call of ToError returned.                                 *)

MaxAdded == 4

BagKinds == {"parse", "invalid", "class"}

\* e.AddError(err)
BagAddError ==
    /\ Len(s2Error.errors) < MaxAdded
    /\ \E kind \in BagKinds :
          /\ s2Error' = AddError(s2Error, ErrorOf(kind))
          /\ lines' = Append(lines, ErrorOf(kind))
    /\ UNCHANGED <<input, s1, pc, stagesRun, s3Error, s4, ret, backVars>>

\* e.ToError()
BagToError ==
    /\ s2Error' = ToErrorState(s2Error)
    /\ ret' = Return(<<>>, ToError(s2Error))
    /\ UNCHANGED <<splitVars, pc, stagesRun, s3Error, s4, backVars>>

NextError == BagAddError \/ BagToError

SpecError == InitSplit /\ [][NextError]_vars

\* C13: after any sequence of AddError and ToError calls, Errors() is the list
\* of the errors added, in the order they were added; ToError() returns nil
\* iff no error was added, and otherwise one error whose message joins all
\* errors added so far, those added after an earlier call of ToError too.
C13_ToErrorJoinsAll ==
    /\ Errors(s2Error) = lines
    /\ ToError(s2Error).nil <=> lines = <<>>
    /\ lines # <<>> => ToError(s2Error) = JoinedError(lines)

----------------------------------------------------------------------------
(* Stage 1 and stage 2 on a spec text of six sections: the items that      *)
(* stage 1 cuts, and what stage 2 makes of each                            *)

\* isWhitespace of the DSL parsers, and the white space of strings.TrimSpace
IsBlank(c) == c \in {" ", "\t", NL, "\r"}

\* the text after its leading white space
TrimLeft(text) ==
    LET rest == {i \in 1..Len(text) : ~IsBlank(text[i])}
    IN  IF rest = {} THEN <<>> ELSE SubSeq(text, Min(rest), Len(text))

\* strings.TrimSpace
TrimSpace(text) ==
    LET rest == {i \in 1..Len(text) : ~IsBlank(text[i])}
    IN  IF rest = {} THEN <<>> ELSE SubSeq(text, Min(rest), Max(rest))

\* \w of the regexps and the characters of expectIdentifier
IsWordChar(c) ==
    IsLetter(c) \/ c \in {"0", "1", "2", "3", "4", "5", "6", "7", "8", "9", "_"}

\* keywordRegex: ^[a-zA-Z0-9_]+$
keywordRegex(text) == text # <<>> /\ \A i \in 1..Len(text) : IsWordChar(text[i])

\* the length of the longest prefix of text whose characters satisfy Is
PrefixLen(text, Is(_)) ==
    LET stop == {i \in 1..Len(text) : ~Is(text[i])}
    IN  IF stop = {} THEN Len(text) ELSE Min(stop) - 1

\* nodeRegex: ^(\w+) +<([\w ]+)?>$, the submatches m[1] and m[2]
nodeRegex(text) ==
    LET n == PrefixLen(text, IsWordChar)
        rest == SubSeq(text, n + 1, Len(text))
        sp == PrefixLen(rest, LAMBDA c : c = " ")
        arg == SubSeq(rest, sp + 2, Len(rest) - 1)
    IN  IF /\ n > 0 /\ sp > 0 /\ Len(rest) >= sp + 2
           /\ rest[sp + 1] = "<" /\ rest[Len(rest)] = ">"
           /\ \A i \in 1..Len(arg) : IsWordChar(arg[i]) \/ arg[i] = " "
        THEN [ok |-> TRUE, name |-> SubSeq(text, 1, n), args |-> arg]
        ELSE [ok |-> FALSE, name |-> <<>>, args |-> <<>>]

\* regex.ReplaceAllString(text, " "): every run of spaces becomes one space
SqueezeSpaces(text) ==
    SelectSeq([i \in 1..Len(text) |->
                  IF text[i] = " " /\ i > 1 /\ text[i - 1] = " " THEN "" ELSE text[i]],
              LAMBDA c : c # "")

\* ParseTokenRule and ParseGrammarRule on a text: the name, the colon, and
\* for the rules of the model one string atom of one character up to the end
RuleOfText(text) ==
    LET body == TrimLeft(text)
        n == PrefixLen(body, IsWordChar)
        colon == TrimLeft(SubSeq(body, n + 1, Len(body)))
        atom == TrimSpace(SubSeq(colon, 2, Len(colon)))
    IN  IF n = 0 \/ colon = <<>> \/ colon[1] # ":" THEN [ok |-> FALSE]
        ELSE IF Len(atom) = 3 /\ atom[1] = "'" /\ atom[3] = "'" /\ IsWordChar(atom[2])
        THEN [ok |-> TRUE,
              shape |-> Rule(SubSeq(body, 1, n), FALSE,
                             <<Choice(<<AtomItem(StringAtom(atom))>>, <<>>)>>)]
        ELSE [ok |-> FALSE]

\* a loop over the items of a section
ForEach(items, st, step(_, _)) ==
    LET RECURSIVE go(_, _)
        go(s, i) == IF i > Len(items) THEN s
                    ELSE With(step(s, items[i]), LAMBDA next : go(next, i + 1))
    IN  go(st, 1)

Failed(st, kind) == [st EXCEPT !.errors = Append(@, ErrorOf(kind))]

\* the body of the loop of parseTokenRules and of parseGrammarRules
ruleItem(content, st, snippet, grammar) ==
    IF HasPrefix(Text(content, snippet), <<"#", " ">>) THEN st
    ELSE With(RuleOfText(Text(content, snippet)),
              LAMBDA r :
                  IF ~r.ok THEN Failed(st, IF grammar THEN "grammar" ELSE "token")
                  ELSE With(ParseRule(st.heap, r.shape),
                            LAMBDA rule :
                                [st EXCEPT
                                    !.heap = rule.heap,
                                    !.lang = IF grammar
                                             THEN AddGrammarRule(@, rule.heap, rule.id)
                                             ELSE AddTokenRule(@, rule.id)]))

\* the body of the loop of parseKeywords
keywordItem(content, st, snippet) ==
    With(TrimSpace(Text(content, snippet)),
         LAMBDA text :
             IF HasPrefix(text, <<"#", " ">>) THEN st
             ELSE IF keywordRegex(text)
             THEN [st EXCEPT !.lang = AddKeyword(@, text)]
             ELSE Failed(st, "keyword"))

\* the body of the loop of parseOperators
operatorItem(content, st, snippet) ==
    With(TrimSpace(Text(content, snippet)),
         LAMBDA text :
             IF HasPrefix(text, <<"#", " ">>) THEN st
             ELSE IF operatorRegex(text)
             THEN [st EXCEPT !.lang = AddOperator(@, text)]
             ELSE Failed(st, "operator"))

\* the body of the loop of parseNodes
nodeItem(content, st, snippet) ==
    With(TrimSpace(Text(content, snippet)),
         LAMBDA text :
             IF HasPrefix(text, <<"#", " ">>) THEN st
             ELSE With(nodeRegex(text),
                       LAMBDA m :
                           IF m.ok
                           THEN [st EXCEPT !.lang = AddAstNode(@,
                                    NewAstNode(m.name, Split(SqueezeSpaces(m.args), <<" ">>)))]
                           ELSE Failed(st, "node")))

\* the five loops of Stage2.run over the items of stage 1
parseSections(content, st1) ==
    With(ForEach(st1.Tokens.items,
                 [lang |-> NewLanguage, heap |-> <<>>, errors |-> <<>>],
                 LAMBDA s, sn : ruleItem(content, s, sn, FALSE)),
         LAMBDA s1t :
    With(ForEach(st1.Keywords.items, s1t,
                 LAMBDA s, sn : keywordItem(content, s, sn)),
         LAMBDA s2t :
    With(ForEach(st1.Operators.items, s2t,
                 LAMBDA s, sn : operatorItem(content, s, sn)),
         LAMBDA s3t :
    With(ForEach(st1.Nodes.items, s3t,
                 LAMBDA s, sn : nodeItem(content, s, sn)),
         LAMBDA s4t :
             ForEach(st1.Grammars.items, s4t,
                     LAMBDA s, sn : ruleItem(content, s, sn, TRUE))))))

\* the texts a section of the model is written with
RuleSectionTexts(name) ==
    {<<>>,
     name \o <<":", " ", "'", "x", "'">> \o <<NL>>,
     <<"#", " ", "c">> \o <<NL>> \o name \o <<":", " ", "'", "x", "'">> \o <<NL>>,
     <<NL>> \o <<"#", " ", "c">> \o <<NL>>,
     name \o <<":", " ", "'", "x", "'">> \o <<NL, NL>> \o <<" ", "#", " ", "c">> \o <<NL>>}

SectionTexts(k) ==
    CASE k = 1 -> RuleSectionTexts(<<"t">>)
      [] k = 2 -> {<<>>, <<"i", "f">> \o <<NL>> \o <<"#", " ", "c">> \o <<NL>>,
                   <<NL>> \o <<" ", " ", "#", " ", "c">> \o <<NL>> \o <<"i", "f">> \o <<NL>>,
                   <<"#", " ">> \o <<NL>>}
      [] k = 3 -> {<<>>, <<"#", " ", "c">> \o <<NL>> \o <<"=">> \o <<NL>>, <<"#", " ">> \o <<NL>>}
      [] k = 4 -> {<<>>, <<"n", " ", "<", "x", " ", " ", "y", ">">> \o <<NL>>, <<" ", "#", " ", "c">> \o <<NL>>}
      [] k = 5 -> RuleSectionTexts(<<"r">>)
      [] OTHER -> {<<>>, <<"h">> \o <<NL>>}

\* the author writes the next section of the spec, and the divider after
\* each of the first five; lines is the list of the sections written
WriteSection ==
    /\ pc = "s1"
    /\ Len(lines) < SectionCount
    /\ \E text \in SectionTexts(Len(lines) + 1) :
          /\ lines' = Append(lines, text)
          /\ input' = input \o text
                 \o (IF Len(lines) + 1 < SectionCount THEN Divider ELSE <<>>)
    /\ UNCHANGED <<s1, runVars, backVars>>

\* Run: s2 := stages.RunStage2(s1), and the return on its error
RunStage2 ==
    /\ pc = "s2"
    /\ \E st \in {parseSections(input, s1)} :
          \E tokens \in {convertTokenRules(st.lang, st.heap)} :
              \E grammars \in {convertGrammarRules(tokens.lang, tokens.heap)} :
                  /\ parsed' = st.heap
                  /\ heap' = grammars.heap
                  /\ lang' = grammars.lang
                  /\ s2Error' = ToErrorState([NewError EXCEPT !.errors = st.errors])
    /\ stagesRun' = Append(stagesRun, "S2")
    /\ IF StageFailed(s2Error')
       THEN pc' = "done" /\ ret' = Return(<<>>, ToError(s2Error'))
       ELSE pc' = "s31" /\ UNCHANGED ret
    /\ UNCHANGED <<splitVars, s3Error, s4, emitVars, bp>>

NextItems == WriteSection \/ RunStage1 \/ RunStage2

SpecItems == InitSplit /\ [][NextItems]_vars

\* the item is a comment: its first characters after white space are `# `
IsComment(text) == HasPrefix(TrimLeft(text), <<"#", " ">>)

\* the items of a section that are no comments
Meant(items) == SelectSeq(items, LAMBDA sn : ~IsComment(Text(input, sn)))

ErrorsOf(kind) == SelectSeq(s2Error.errors, LAMBDA e : e.kind = kind)

\* C12: stage 2 skips every item whose first characters after white space are
\* `# `, in the five sections: each item that is no comment makes one rule,
\* keyword, operator or node or records one error, and a comment, also one
\* that begins with blank lines or spaces, makes nothing and records nothing.
C12_CommentsSkipped ==
    Len(stagesRun) = 2 =>
        /\ Len(Written(lang.tokenRules)) + Len(ErrorsOf("token"))
               = Len(Meant(s1.Tokens.items))
        /\ Len(lang.keywords) + Len(ErrorsOf("keyword"))
               = Len(Meant(s1.Keywords.items))
        /\ Len(lang.operators) + Len(ErrorsOf("operator"))
               = Len(Meant(s1.Operators.items))
        /\ Len(lang.astNodes) + Len(ErrorsOf("node"))
               = Len(Meant(s1.Nodes.items))
        /\ Len(Written(lang.grammarRules)) + Len(ErrorsOf("grammar"))
               = Len(Meant(s1.Grammars.items))

\* the position reached by advancing from the origin (0, 0, 0) over the first
\* n characters of content: a newline starts the next line at character 0
PositionAt(content, n) ==
    With({i \in 1..n : content[i] = NL},
         LAMBDA nls : NewPosition(n, Cardinality(nls),
                                  IF nls = {} THEN n ELSE n - Max(nls)))

\* the snippet lies where its positions say
Tracks(content, sn) ==
    /\ sn.Start = PositionAt(content, sn.Start.Offset)
    /\ sn.End = PositionAt(content, sn.End.Offset)

\* the snippets are the given texts, one after the other, skip apart
Consecutive(content, sns, texts, start, skip) ==
    /\ Len(sns) = Len(texts)
    /\ \A i \in 1..Len(sns) :
          /\ Tracks(content, sns[i])
          /\ Text(content, sns[i]) = texts[i]
          /\ sns[i].Start.Offset =
                 IF i = 1 THEN start ELSE sns[i - 1].End.Offset + skip

\* the items of a section are the matches of its pattern, end to start
ItemsTrack(section, items, pattern) ==
    Consecutive(input, items,
                FindAll(pattern, Text(input, section), 1),
                section.Start.Offset, 0)

\* C14: every snippet of stage 1, the sections and the items split from them,
\* has as FileContent[Start.Offset:End.Offset] its text, and Start and End are
\* the positions reached by advancing from (0, 0, 0) over the spec text to
\* their offsets; the End of an item is the Start of the next.
C14_SnippetsTrack ==
    s1.ran =>
        /\ Consecutive(input, s1.sections, Split(input, Divider), 0, Len(Divider))
        /\ ~s1.Tokens.nil =>
              /\ ItemsTrack(s1.sections[1], s1.Tokens.items, "rule")
              /\ ItemsTrack(s1.sections[2], s1.Keywords.items, "simple")
              /\ ItemsTrack(s1.sections[3], s1.Operators.items, "simple")
              /\ ItemsTrack(s1.sections[4], s1.Nodes.items, "simple")
              /\ ItemsTrack(s1.sections[5], s1.Grammars.items, "rule")
              /\ s1.Hack.items = <<s1.sections[6]>>

\* stage 1 has cut two keyword items and two grammar items that begin on
\* later lines of the text, behind dividers
C14_Witness ==
    /\ s1.ran /\ ~s1.Tokens.nil
    /\ Len(s1.Keywords.items) = 2
    /\ Len(s1.Grammars.items) = 2
    /\ s1.Grammars.items[2].Start.LineIdx > s1.Keywords.items[2].Start.LineIdx
    /\ s1.Grammars.items[2].Start.CharIdx = 0
    /\ s1.Grammars.items[2].End.Offset > s1.Grammars.items[2].Start.Offset

----------------------------------------------------------------------------
(* util: the escapes of quoted strings.  A string is here its sequence of  *)
(* bytes, a rune a code point.                                             *)

\* []rune(s) at byte i (0-based): the code point and its width; bytes that
\* are not UTF-8 give U+FFFD and width 1
DecodeRune(s, i) ==
    LET b(k) == IF i + k < Len(s) THEN s[i + k + 1] ELSE 0
        cont(k) == b(k) \in 128..191
        bad == [rune |-> 65533, width |-> 1]
    IN  IF b(0) < 128 THEN [rune |-> b(0), width |-> 1]
        ELSE IF b(0) \in 194..223 /\ cont(1)
        THEN [rune |-> (b(0) - 192) * 64 + (b(1) - 128), width |-> 2]
        ELSE IF /\ b(0) \in 224..239 /\ cont(1) /\ cont(2)
                /\ b(0) = 224 => b(1) >= 160
                /\ b(0) = 237 => b(1) <= 159
        THEN [rune |-> (b(0) - 224) * 4096 + (b(1) - 128) * 64 + (b(2) - 128),
              width |-> 3]
        ELSE IF /\ b(0) \in 240..244 /\ cont(1) /\ cont(2) /\ cont(3)
                /\ b(0) = 240 => b(1) >= 144
                /\ b(0) = 244 => b(1) <= 143
        THEN [rune |-> (b(0) - 240) * 262144 + (b(1) - 128) * 4096
                           + (b(2) - 128) * 64 + (b(3) - 128),
              width |-> 4]
        ELSE bad

\* []rune(s)
Runes(s) ==
    LET RECURSIVE go(_)
        go(i) == IF i >= Len(s) THEN <<>>
                 ELSE With(DecodeRune(s, i),
                           LAMBDA d : <<d.rune>> \o go(i + d.width))
    IN  go(0)

\* string(r): the UTF-8 bytes of a rune, of U+FFFD for a surrogate
EncodeRune(r) ==
    IF r < 128 THEN <<r>>
    ELSE IF r < 2048 THEN <<192 + (r \div 64), 128 + (r % 64)>>
    ELSE IF r \in 55296..57343 \/ r > 1114111 THEN <<239, 191, 189>>
    ELSE IF r < 65536
    THEN <<224 + (r \div 4096), 128 + ((r \div 64) % 64), 128 + (r % 64)>>
    ELSE <<240 + (r \div 262144), 128 + ((r \div 4096) % 64),
           128 + ((r \div 64) % 64), 128 + (r % 64)>>

\* string(runes)
String(runes) == Concat([i \in 1..Len(runes) |-> EncodeRune(runes[i])])

\* the mutant of printableAscii: the backslash is written as it is too
printableAsciiAndBackslash(b) ==
    \/ b \in {33, 37, 38, 40, 41, 42, 43, 44, 46, 47, 58, 59, 60, 61, 62, 63,
              64, 91, 93, 94, 123, 124, 125, 126, 35, 36, 45, 96, 39, 34, 92}
    \/ b \in 48..57 \/ b \in 97..102 \/ b \in 65..70

\* ! % & ( ) * + , . / : ; < = > ? @ [ ] ^ { | } ~ # $ - ` ' " and the
\* characters 0-9, a-f, A-F
printableAscii(b) ==
    \/ b \in {33, 37, 38, 40, 41, 42, 43, 44, 46, 47, 58, 59, 60, 61, 62, 63,
              64, 91, 93, 94, 123, 124, 125, 126, 35, 36, 45, 96, 39, 34}
    \/ b \in 48..57 \/ b \in 97..102 \/ b \in 65..70

\* the mutant of rune2hex4: the digits above 9 are a-f
rune2hex4Lower(r) ==
    [k \in 1..4 |->
        LET val == (r \div (16 ^ (4 - k))) % 16
        IN  IF val < 10 THEN 48 + val ELSE 97 + val - 10]

\* the four hex digits of r % 65536, 0-9 and A-F
rune2hex4(r) ==
    [k \in 1..4 |->
        LET val == (r \div (16 ^ (4 - k))) % 16
        IN  IF val < 10 THEN 48 + val ELSE 65 + val - 10]

escape(r) ==
    IF printableAscii(r) THEN <<r>>
    ELSE CASE r = 9 -> <<92, 116>>
           [] r = 10 -> <<92, 110>>
           [] r = 13 -> <<92, 114>>
           [] r = 12 -> <<92, 102>>
           [] r = 92 -> <<92, 92>>
           [] OTHER -> <<92, 117>> \o rune2hex4(r)

SingleQuoteStringEscape(s) ==
    With(Runes(s),
         LAMBDA rs : Concat([i \in 1..Len(rs) |->
                                IF rs[i] = 39 THEN <<92, 39>> ELSE escape(rs[i])]))

hex4toRune(bs) ==
    LET digit(b) == IF b \in 48..57 THEN b - 48
                    ELSE IF b \in 65..70 THEN b - 65 + 10
                    ELSE b - 97 + 10
    IN  ((digit(bs[1]) * 16 + digit(bs[2])) * 16 + digit(bs[3])) * 16 + digit(bs[4])

isHex(b) == b \in 48..57 \/ b \in 65..70 \/ b \in 97..102

\* i is a 0-based index into s
isUnicodeFormat(s, i) ==
    /\ Len(s) > i + 5
    /\ s[i + 1] = 92 /\ s[i + 2] = 117
    /\ isHex(s[i + 3]) /\ isHex(s[i + 4]) /\ isHex(s[i + 5]) /\ isHex(s[i + 6])

\* s[i] is the backslash; the rune, and the index of the last byte used.
\* When the backslash is the last byte, `s[i]` after `i++` is out of range
\* and the Go runtime panics.
unescape(s, i) ==
    IF isUnicodeFormat(s, i)
    THEN [rune |-> hex4toRune(SubSeq(s, i + 3, i + 6)), last |-> i + 5,
          panic |-> FALSE]
    ELSE IF i + 2 > Len(s) THEN [rune |-> -1, last |-> i + 1, panic |-> TRUE]
    ELSE [rune |-> CASE s[i + 2] = 116 -> 9
                     [] s[i + 2] = 110 -> 10
                     [] s[i + 2] = 114 -> 13
                     [] s[i + 2] = 102 -> 12
                     [] OTHER -> s[i + 2],
          last |-> i + 1, panic |-> FALSE]

SingleQuoteStringUnescape(s) ==
    LET RECURSIVE loop(_)
        loop(i) ==
            IF i >= Len(s) THEN <<>>
            ELSE IF s[i + 1] = 92 /\ i + 1 < Len(s)
            THEN IF s[i + 2] = 39 THEN <<39>> \o loop(i + 2)
                 ELSE With(unescape(s, i),
                           LAMBDA u : <<u.rune>> \o loop(u.last + 1))
            ELSE <<s[i + 1]>> \o loop(i + 1)
    IN  String(loop(0))

MaxSymbols == 3

MaxApplied == 2

\* the pieces the strings of the model are made of: \ ' " 0 u t g, the tab,
\* the newline, the form feed, the carriage return, U+00E9 and U+20AC in
\* UTF-8, and the escapes 0 é é € \uD800 \t \'
EscapeSymbols ==
    {<<92>>, <<39>>, <<34>>, <<48>>, <<117>>, <<116>>, <<103>>, <<9>>, <<10>>,
     <<12>>, <<13>>, <<195, 169>>, <<226, 130, 172>>,
     <<92, 117, 48, 48, 51, 48>>, <<92, 117, 48, 48, 101, 57>>,
     <<92, 117, 48, 48, 69, 57>>, <<92, 117, 50, 48, 65, 67>>,
     <<92, 117, 68, 56, 48, 48>>, <<92, 116>>, <<92, 39>>}

EscapeInputs ==
    {Concat(ss) : ss \in UNION {[1..n -> EscapeSymbols] : n \in 0..MaxSymbols}}

InitEscape ==
    /\ input \in EscapeInputs
    /\ lines = <<>>
    /\ s1 = NewStage1(<<>>)
    /\ pc = "util"
    /\ stagesRun = <<>>
    /\ s2Error = NewError
    /\ s3Error = <<NewError, NewError, NewError>>
    /\ s4 = [Error |-> NewError, Gen |-> <<>>]
    /\ ret = NoReturn
    /\ InitBack

\* the string the next call is made on: the input, or the last result
Current == IF out = <<>> THEN input ELSE out[Len(out)].value

CallEscape ==
    /\ pc = "util"
    /\ Len(out) < MaxApplied
    /\ out' = Append(out, [fn |-> "escape", arg |-> Current,
                           value |-> SingleQuoteStringEscape(Current)])
    /\ UNCHANGED <<splitVars, runVars, langVars, cls, tk, ast, ps>>

CallUnescape ==
    /\ pc = "util"
    /\ Len(out) < MaxApplied
    /\ out' = Append(out, [fn |-> "unescape", arg |-> Current,
                           value |-> SingleQuoteStringUnescape(Current)])
    /\ UNCHANGED <<splitVars, runVars, langVars, cls, tk, ast, ps>>

NextEscape == CallEscape \/ CallUnescape

SpecEscape == InitEscape /\ [][NextEscape]_vars

\* x is a sequence of the forms: a character that is written unescaped, one
\* of \t \n \r \f \\ \', or \uXXXX with four hex digits for which Hex4 holds
FormsOf(x, Hex4(_)) ==
    LET RECURSIVE from(_)
        from(i) ==
            IF i >= Len(x) THEN TRUE
            ELSE IF x[i + 1] # 92
            THEN printableAscii(x[i + 1]) /\ x[i + 1] # 39 /\ from(i + 1)
            ELSE IF i + 1 >= Len(x) THEN FALSE
            ELSE IF x[i + 2] \in {116, 110, 114, 102, 92, 39} THEN from(i + 2)
            ELSE /\ isUnicodeFormat(x, i)
                 /\ Hex4(SubSeq(x, i + 3, i + 6))
                 /\ from(i + 6)
    IN  from(0)

Representable(x) == FormsOf(x, LAMBDA h : TRUE)

\* the forms SingleQuoteStringEscape writes: the hex digits are 0-9 and A-F
\* and name a code point that has no shorter form and is no surrogate
Canonical(x) ==
    FormsOf(x, LAMBDA h :
                  /\ \A k \in 1..4 : h[k] \notin 97..102
                  /\ ~printableAscii(hex4toRune(h))
                  /\ hex4toRune(h) \notin {9, 10, 13, 12, 92}
                  /\ hex4toRune(h) \notin 55296..57343)

\* unescape, then escape, has been called on the input
Unescaped == Len(out) = 2 /\ out[1].fn = "unescape" /\ out[2].fn = "escape"

\* escape, then unescape, has been called on the input
Escaped == Len(out) = 2 /\ out[1].fn = "escape" /\ out[2].fn = "unescape"

\* C15 as stated: for every x all of whose characters are representable,
\* unescaped characters and the escapes \t \n \r \f \\ \' and \uXXXX,
\* SingleQuoteStringEscape(SingleQuoteStringUnescape(x)) = x.
C15_EscapeUnescape ==
    Unescaped /\ Representable(input) => out[2].value = input

\* C15 amended: for every x made of the forms SingleQuoteStringEscape writes
\* (\uXXXX only in upper case and only for a code point that has no shorter
\* form), SingleQuoteStringEscape(SingleQuoteStringUnescape(x)) = x.
C15_EscapeUnescapeCanonical ==
    Unescaped /\ Canonical(input) => out[2].value = input

\* the round trip has been made on é followed by an escaped quote
C15_Witness ==
    /\ Unescaped /\ Canonical(input)
    /\ input = <<92, 117, 48, 48, 69, 57, 92, 39>>
    /\ out[1].value = <<195, 169, 39>>

----------------------------------------------------------------------------
(* The emitted right part of a left-recursive rule                         *)

\* the statements of a body and of the bodies in it
RECURSIVE Statements(_)
Statements(body) ==
    Concat([i \in 1..Len(body) |->
               <<body[i]>>
               \o (IF "body" \in DOMAIN body[i] THEN Statements(body[i].body) ELSE <<>>)
               \o (IF "else" \in DOMAIN body[i] THEN Statements(body[i].else) ELSE <<>>)])

\* the function of the emitted parser with this name
FuncNamed(name) == out[CHOOSE i \in 1..Len(out) : out[i].name = name]

\* the items of c at the left edge whose atom is a reference to the rule R
RecursesAt(R, c) ==
    {i \in Reached(c) :
        LET a == Child(heap, heap[c].children[i])
        IN  a # Nil /\ heap[a].kind = "name-atom" /\ heap[a].name = heap[R].name}

\* the references to the rule R in the choice c
References(R, c) ==
    {n \in Elems(Visit(heap, c)) :
        heap[n].kind = "name-atom" /\ heap[n].name = heap[R].name}

\* C18: in the emitted R_right_part(left), for every choice classified
\* left-recursive, the item at which the choice recurses into R at its left
\* edge is bound to left and not parsed: the code of the choice assigns left to
\* the variable of that item and calls R() only for the other references to R,
\* also when items that can match empty come before that item and when the
\* item has no label.
C18_LeftBound ==
    pc = "s33" =>
        \A i \in 1..Len(cls) :
            \A k \in 1..Len(cls[i].leftRecChoices) :
                LET R == cls[i].rule
                    c == cls[i].leftRecChoices[k]
                    right == FuncNamed(ToCamelCase(heap[R].name) \o <<"R", "i", "g", "h", "t", "P", "a", "r", "t">>)
                    code == SelectSeq(right.body, LAMBDA s : s.op = "for")[k].body
                    calls == SelectSeq(Statements(code),
                                 LAMBDA s : s.op = "call"
                                     /\ s.fn = SafeName(ToCamelCase(heap[R].name)))
                IN  RecursesAt(R, c) # {} =>
                        LET item == heap[c].children[Min(RecursesAt(R, c))]
                        IN  /\ \E n \in 1..Len(code) :
                                  /\ code[n].op = "assign"
                                  /\ code[n].expr = <<"_", "l", "e", "f", "t">>
                                  /\ code[n].var # <<>>
                                  /\ heap[item].name # <<>> =>
                                        code[n].var = heap[item].name
                            /\ Len(calls) = Cardinality(References(R, c)) - 1

----------------------------------------------------------------------------
(* The emitted parser at work: its functions run on a list of tokens       *)

\* a token, and the token that ends every list
Token(kind, value) == [Kind |-> kind, Value |-> value]

EndOfFile == Token(<<"e", "n", "d", "_", "o", "f", "_", "f", "i", "l", "e">>, <<>>)

\* NewTokenNode of the token at pos
TokenNodeAt(pos) ==
    [type |-> <<"T", "o", "k", "e", "n", "N", "o", "d", "e">>, fields |-> <<[type |-> Itoa(pos), fields |-> <<>>]>>]

\* NewParser: _pos is 0 and the cache is empty; calls is the record of the
\* calls made of the functions, each with the call it was made in, items
\* the record of the runs of the statements of an item, and regions the
\* record of the calls of _enter and _leave, each with the call it was made in
NewParser(tokens) ==
    [made |-> TRUE, tokens |-> tokens, pos |-> 0, cache |-> <<>>, calls |-> <<>>,
     items |-> <<>>, regions |-> <<>>, panicked |-> FALSE]

\* Parser._stepForward, for tokens that are no brackets
_stepForwardParser(p) ==
    [p EXCEPT !.pos = IF p.pos + 1 >= Len(p.tokens) THEN Len(p.tokens) - 1
                      ELSE p.pos + 1]

\* the value of the constant of a token type: that of a builtin token is its
\* name, as Stage4.constTokenTypes declares it
KindValue(kind) ==
    LET named == {k \in 1..Len(builtinTokens) :
                     kind = <<"T", "o", "k", "e", "n", "T", "y", "p", "e">> \o ToPascalCase(builtinTokens[k])}
    IN  IF named = {} THEN kind ELSE builtinTokens[CHOOSE k \in named : TRUE]

\* Parser._pseudoToken on two nodes: the token node from the start of the
\* first to the end of the last, nil when one of them is nil
_pseudoToken(first, last) ==
    IF first = NilNode \/ last = NilNode THEN NilNode
    ELSE [type |-> <<"T", "o", "k", "e", "n", "N", "o", "d", "e">>, fields |-> <<first.fields[1], last.fields[Len(last.fields)]>>]

\* the frame of a call: its variables, the parser, where control goes, what
\* is returned, and the index of the call in the record
Frame(env, p, self) ==
    [env |-> env, ps |-> p, flow |-> "next", ret |-> NilNode, self |-> self]

\* the statements of body from the i-th on, run on the frame fr
RECURSIVE execParser(_, _, _, _)
execParser(fns, body, i, fr) ==
    IF i > Len(body) \/ fr.flow # "next" THEN fr
    ELSE LET s == body[i]
             p == fr.ps
             tok == p.tokens[p.pos + 1]
             set(v, val) == [fr EXCEPT !.env = MapPut(@, v, val)]
             took(v) == [fr EXCEPT !.env = MapPut(@, v, TokenNodeAt(p.pos)),
                                   !.ps = _stepForwardParser(p)]
             entry == fr.env[<<"c", "a", "c", "h", "e">>]
             key(id) == <<fr.env[<<"p", "o", "s">>], id>>
             RECURSIVE loop(_)
             loop(f) ==
                 With(execParser(fns, s.body, 1, f),
                      LAMBDA r : IF r.flow = "next" THEN loop(r)
                                 ELSE IF r.flow = "break"
                                 THEN [r EXCEPT !.flow = "next"] ELSE r)
             RECURSIVE while(_)
             while(f) ==
                 IF ValueOf(s.var, f.env) = NilNode THEN f
                 ELSE With(execParser(fns, s.body, 1, f),
                           LAMBDA r : IF r.flow = "next" THEN while(r)
                                      ELSE IF r.flow = "break"
                                      THEN [r EXCEPT !.flow = "next"] ELSE r)
             call ==
                 LET f == fns[Min({k \in 1..Len(fns) : fns[k].name = s.fn})]
                     id == Len(p.calls) + 1
                     args == [k \in 1..Len(s.args) |-> ValueOf(s.args[k], fr.env)]
                     begun == [p EXCEPT !.calls = Append(@,
                                  [parent |-> fr.self, fn |-> s.fn, args |-> args,
                                   at |-> p.pos, value |-> NilNode, end |-> p.pos])]
                 IN  With(execParser(fns, f.body, 1,
                                     Frame(MapOf(f.params, args), begun, id)),
                          LAMBDA r :
                              [fr EXCEPT
                                  !.env = MapPut(@, s.var, r.ret),
                                  !.flow = IF r.flow = "panic" THEN "panic" ELSE @,
                                  !.ps = [r.ps EXCEPT
                                             !.calls[id].value = r.ret,
                                             !.calls[id].end = r.ps.pos]])
         IN  With(CASE s.op = "var" -> set(s.var, NilNode)
                    [] s.op = "make" -> set(s.var, <<>>)
                    [] s.op = "append" ->
                           set(s.var, Append(fr.env[s.var], fr.env[s.expr]))
                    [] s.op = "nodes" ->
                           set(s.var, CallEmitted(NodesNodeStruct,
                                                  <<fr.env[s.expr]>>).ret)
                    [] s.op = "discard" -> fr
                    [] s.op = "mark" -> set(s.var, p.pos)
                    [] s.op = "reset" -> [fr EXCEPT !.ps.pos = fr.env[s.var]]
                    [] s.op = "call" -> call
                    [] s.op = "expectK" ->
                           IF tok.Kind = KindValue(s.kind) THEN took(s.var)
                           ELSE set(s.var, NilNode)
                    [] s.op = "expectV" ->
                           IF tok.Value = s.val THEN took(s.var)
                           ELSE set(s.var, NilNode)
                    [] s.op = "anyToken" -> took(s.var)
                    [] s.op = "if-nil" ->
                           IF ValueOf(s.var, fr.env) = NilNode
                           THEN execParser(fns, s.body, 1, fr) ELSE fr
                    [] s.op = "if-not-nil" ->
                           IF ValueOf(s.var, fr.env) # NilNode
                           THEN execParser(fns, s.body, 1, fr) ELSE fr
                    [] s.op = "if-nil-else" ->
                           IF ValueOf(s.var, fr.env) = NilNode
                           THEN execParser(fns, s.body, 1, fr)
                           ELSE execParser(fns, s.else, 1, fr)
                    [] s.op = "break" -> [fr EXCEPT !.flow = "break"]
                    [] s.op = "assign" -> set(s.var, ValueOf(s.expr, fr.env))
                    [] s.op = "return" ->
                           [fr EXCEPT !.flow = "return",
                                      !.ret = ValueOf(s.var, fr.env)]
                    [] s.op = "for" -> loop(fr)
                    [] s.op = "for-not-nil" -> while(fr)
                    [] s.op = "bool" -> set(s.var, s.val)
                    [] s.op = "int" -> set(s.var, s.val)
                    [] s.op = "add" -> set(s.var, fr.env[s.var] + s.val)
                    [] s.op = "if-zero" ->
                           IF fr.env[s.var] = 0
                           THEN execParser(fns, s.body, 1, fr) ELSE fr
                    [] s.op = "pseudoToken" ->
                           set(s.var, _pseudoToken(fr.env[s.first], fr.env[s.last]))
                    [] s.op = "panic" ->
                           [fr EXCEPT !.flow = "panic", !.ps.panicked = TRUE]
                    [] s.op \in {"enter", "leave"} ->
                           [fr EXCEPT !.ps.regions =
                               Append(@, [op |-> s.op, self |-> fr.self])]
                    [] s.op = "if-bool" ->
                           IF fr.env[s.var] = s.val
                           THEN execParser(fns, s.body, 1, fr) ELSE fr
                    [] s.op = "item" ->
                           With(execParser(fns, s.body, 1, fr),
                                LAMBDA r :
                                    [r EXCEPT !.ps.items = Append(@,
                                        [kind |-> s.kind, at |-> p.pos,
                                         end |-> r.ps.pos, flow |-> r.flow,
                                         matched |-> r.env[s.var] # NilNode])])
                    [] s.op = "if-cached" ->
                           IF key(s.id) \in DOMAIN p.cache
                           THEN execParser(fns, s.body, 1,
                                           set(<<"c", "a", "c", "h", "e">>, p.cache[key(s.id)]))
                           ELSE fr
                    [] s.op = "if-cached-nil" ->
                           IF entry.val = NilNode
                           THEN execParser(fns, s.body, 1, fr) ELSE fr
                    [] s.op = "reset-cached" -> [fr EXCEPT !.ps.pos = entry.pos]
                    [] s.op = "return-cached" ->
                           [fr EXCEPT !.flow = "return", !.ret = entry.val]
                    [] s.op = "store" ->
                           [fr EXCEPT !.ps.cache =
                               MapPut(@, key(s.id),
                                      [val |-> fr.env[s.var], pos |-> p.pos])]
                    [] OTHER -> [fr EXCEPT !.flow = "return"],
                  LAMBDA next : execParser(fns, body, i + 1, next))

MaxTokens == 3

MaxParserCalls == 3

\* r: l=r t='a' { t } | 'b'       q: l=q t='a' { t }
\* (memo) m: 'a'? 'b'             (memo) n: 'a' 'b'
\* (memo) p: l=p t='a' { t } | 'b'
ParserShapes ==
    LET a == StringAtom(<<"'", "a", "'">>)
        b == StringAtom(<<"'", "b", "'">>)
        more(name) == Choice(<<Labelled(<<"l">>, AtomItem(NameAtom(name))),
                               Labelled(<<"t">>, AtomItem(a))>>, <<"t">>)
    IN  {Rule(<<"r">>, FALSE, <<more(<<"r">>), One(b)>>),
         Rule(<<"q">>, FALSE, <<more(<<"q">>)>>),
         Rule(<<"m">>, TRUE, <<Seq2(Item("optional-item", a), AtomItem(b))>>),
         Rule(<<"n">>, TRUE, <<Two(a, b)>>),
         Rule(<<"p">>, TRUE, <<more(<<"p">>), One(b)>>)}

\* the lists of tokens of the model: a and b, and the end of the file
TokenLists ==
    {ts \o <<EndOfFile>> :
        ts \in UNION {[1..n -> {Token(<<"p", "s", "e", "u", "d", "o">>, <<"a">>), Token(<<"p", "s", "e", "u", "d", "o">>, <<"b">>)}] :
                         n \in 0..MaxTokens}}

\* the emitted functions are Go: no brace is left open or closes too much,
\* and no statement is about a variable without a name
Builds(fns) ==
    \A k \in 1..Len(fns) :
        \A i \in 1..Len(Statements(fns[k].body)) :
            LET s == Statements(fns[k].body)[i]
            IN  /\ s.op \notin {"}", "for {"}
                /\ "var" \in DOMAIN s => s.var # <<>>

\* NewParser(filePath, fileContent, tokens), in a build of the emitted package
MakeParser ==
    /\ pc = "s33"
    /\ ~ps.made
    /\ Builds(out)
    /\ \E tokens \in TokenLists : ps' = NewParser(tokens)
    /\ UNCHANGED <<splitVars, runVars, langVars, cls, tk, out, ast>>

\* a caller calls the function of a grammar rule
CallRule ==
    /\ ps.made /\ ~ps.panicked
    /\ Len(SelectSeq(ps.calls, LAMBDA c : c.parent = 0)) < MaxParserCalls
    /\ \E i \in 1..Len(lang.grammarRules) :
          \E fr \in {execParser(out,
                         <<SetCall(<<"r", "e", "t">>, SafeName(ToCamelCase(
                               heap[lang.grammarRules[i]].name)), <<>>)>>,
                         1, Frame(<<>>, ps, 0))} :
              ps' = fr.ps
    /\ UNCHANGED <<splitVars, runVars, langVars, cls, tk, out, ast>>

\* a caller backtracks: ps._reset(pos) to a position it has marked
ResetParser ==
    /\ ps.made
    /\ \E pos \in 0..(ps.pos - 1) : ps' = [ps EXCEPT !.pos = pos]
    /\ UNCHANGED <<splitVars, runVars, langVars, cls, tk, out, ast>>

NextParser ==
    \/ parseGrammarRules(ParserShapes)
    \/ convertRules
    \/ RunS31
    \/ genGrammarRules
    \/ MakeParser
    \/ CallRule
    \/ ResetParser

SpecParser == InitStage2 /\ [][NextParser]_vars

\* the calls made in the call with index id, in the order they were made
CallsIn(id) == SelectSeq(ps.calls, LAMBDA c : c.parent = id)

\* the names of the functions that drive a left-recursive rule, each with the
\* camel name of its rule
Drivers ==
    {<<SafeName(ToCamelCase(heap[cls[i].rule].name))
           \o (IF heap[cls[i].rule].ruleMemo THEN <<"_">> ELSE <<>>),
       ToCamelCase(heap[cls[i].rule].name)>> :
        i \in {k \in 1..Len(cls) : cls[k].emitted = "gramLeftRecRuleCode"}}

AllLeftRecursive(camel) ==
    \E i \in 1..Len(cls) :
        /\ ToCamelCase(heap[cls[i].rule].name) = camel
        /\ cls[i].simpleChoices = <<>>

\* C17: the function R() of a rule with a left-recursive choice first calls
\* R_left_most(); when that returns nil it returns nil and has not called
\* R_right_part, as always when every choice of R is left-recursive; otherwise
\* it calls R_right_part(left), with the last result that was not nil as
\* left, until the result is nil, and returns that left.
C17_Driver ==
    ps.made =>
        \A id \in 1..Len(ps.calls) :
            \A d \in Drivers :
                ps.calls[id].fn = d[1] =>
                    LET in == CallsIn(id)
                        n == Len(in)
                    IN  /\ n >= 1
                        /\ in[1].fn = d[2] \o <<"L", "e", "f", "t", "M", "o", "s", "t">>
                        /\ AllLeftRecursive(d[2]) => in[1].value = NilNode
                        /\ in[1].value = NilNode =>
                              n = 1 /\ ps.calls[id].value = NilNode
                        /\ in[1].value # NilNode =>
                              /\ n >= 2
                              /\ \A k \in 2..n :
                                    /\ in[k].fn = d[2] \o <<"R", "i", "g", "h", "t", "P", "a", "r", "t">>
                                    /\ in[k].args = <<in[k - 1].value>>
                                    /\ (in[k].value = NilNode) <=> (k = n)
                              /\ ps.calls[id].value = in[n - 1].value

\* r() was called on `b a a`: left most gave b, right part a, a, then nil;
\* and q() was called, whose left most has no choice
C17_Witness ==
    /\ ps.made
    /\ \E id \in 1..Len(ps.calls) :
          /\ ps.calls[id].fn = <<"r">>
          /\ Len(CallsIn(id)) = 4
          /\ ps.calls[id].value = TokenNodeAt(2)
    /\ \E id \in 1..Len(ps.calls) :
          /\ ps.calls[id].fn = <<"q">>
          /\ Len(CallsIn(id)) = 1

\* the names of the memo wrappers of the rules marked (memo)
Wrappers ==
    {SafeName(ToCamelCase(heap[lang.grammarRules[i]].name)) :
        i \in {k \in 1..Len(lang.grammarRules) :
                  heap[lang.grammarRules[k]].ruleMemo}}

\* the calls of the function of call id made before it at its position
Before(id) ==
    {k \in 1..(id - 1) :
        ps.calls[k].fn = ps.calls[id].fn /\ ps.calls[k].at = ps.calls[id].at}

\* C19: the function R() of a rule marked (memo), called at the position p:
\* when no call was made at p before, it calls R_() once, and returns its
\* result at the position R_() left; when one was, it does not call R_(), and
\* returns nil at p when the node of the first call was nil, and that node at
\* the position the first call left otherwise.  So every call of R() at p
\* returns the node, and leaves the position, of the first call at p.
C19_MemoCalls ==
    ps.made =>
        \A id \in 1..Len(ps.calls) :
            ps.calls[id].fn \in Wrappers =>
                LET c == ps.calls[id]
                    in == CallsIn(id)
                IN  IF Before(id) = {}
                    THEN /\ Len(in) = 1
                         /\ in[1].fn = c.fn \o <<"_">>
                         /\ c.value = in[1].value
                         /\ c.end = in[1].end
                    ELSE LET first == ps.calls[Min(Before(id))]
                         IN  /\ in = <<>>
                             /\ c.value = first.value
                             /\ first.value = NilNode => c.end = c.at
                             /\ first.value # NilNode => c.end = first.end
                             /\ c.end = first.end

----------------------------------------------------------------------------
(* Stage31: the methods of the token rules as statements, and the emitted  *)
(* tokenizer run on a text                                                 *)

\* the byte of a character of Ascii, and the character of a byte
CodeOf(c) == IF c = "!" THEN 33 ELSE Ord(c) + 33

CharOf(b) == IF b = 33 THEN "!" ELSE Ascii[b - 33]

Bytes(text) == [i \in 1..Len(text) |-> CodeOf(text[i])]

\* the rune in tk._lookahead: '\x00' at the end of the buffer
RuneOf(ch) == IF ch = EOF THEN 0 ELSE CodeOf(ch)

\* util.ParseCharacterClass on the bytes between the brackets
ParseCharacterClass(s) ==
    LET RECURSIVE loop(_, _, _, _)
        loop(i, last, rangeStart, pairs) ==
            IF i >= Len(s)
            THEN [pairs |-> IF last # -1 THEN Append(pairs, <<last>>) ELSE pairs,
                  err |-> FALSE, panic |-> FALSE]
            ELSE IF s[i + 1] = 45 /\ i # Len(s) - 1
            THEN IF last = -1 THEN [pairs |-> <<>>, err |-> TRUE, panic |-> FALSE]
                 ELSE loop(i + 1, -1, last, pairs)
            ELSE LET kept == IF last # -1 THEN Append(pairs, <<last>>) ELSE pairs
                     item == IF s[i + 1] = 92 THEN unescape(s, i)
                             ELSE [rune |-> s[i + 1], last |-> i, panic |-> FALSE]
                 IN  IF item.panic
                     THEN [pairs |-> <<>>, err |-> FALSE, panic |-> TRUE]
                     ELSE IF rangeStart # -1
                     THEN loop(item.last + 1, -1, -1,
                               Append(kept, <<rangeStart, item.rune>>))
                     ELSE loop(item.last + 1, item.rune, -1, kept)
    IN  loop(0, -1, -1, <<>>)

\* util.DoubleQuoteStringEscape
DoubleQuoteStringEscape(s) ==
    With(Runes(s),
         LAMBDA rs : Concat([i \in 1..Len(rs) |->
                                IF rs[i] = 34 THEN <<92, 34>> ELSE escape(rs[i])]))

\* the string that the Go literal "s" denotes, for the escapes that
\* DoubleQuoteStringEscape writes
GoStringValue(s) ==
    LET RECURSIVE loop(_)
        loop(i) ==
            IF i >= Len(s) THEN <<>>
            ELSE IF s[i + 1] # 92 THEN <<s[i + 1]>> \o loop(i + 1)
            ELSE IF s[i + 2] = 117
            THEN EncodeRune(hex4toRune(SubSeq(s, i + 3, i + 6))) \o loop(i + 6)
            ELSE <<CASE s[i + 2] = 116 -> 9
                     [] s[i + 2] = 110 -> 10
                     [] s[i + 2] = 114 -> 13
                     [] s[i + 2] = 102 -> 12
                     [] OTHER -> s[i + 2]>> \o loop(i + 2)
    IN  loop(0)

\* a call in the condition of an emitted `if`: tk._expect(r),
\* tk._expectR(s, e), tk._expectS("s") or the method tk.name()
Cond(fn, args) == [fn |-> fn, args |-> args]

\* `if` c1 `||` c2 ... `{` body `}`
IfAny(conds, body) == [op |-> "if-any", conds |-> conds, body |-> body]

\* `return true`, `return false`
ReturnBool(b) == [op |-> "return-bool", val |-> b]

\* genEnterCode on an atom: the condition of the `if` it opens
tokAtomCode(h, atom) ==
    LET val == SubSeq(h[atom].text, 2, Len(h[atom].text) - 1)
    IN  CASE h[atom].kind = "name-atom" ->
                 [conds |-> <<Cond("method", <<SafeName(ToCamelCase(h[atom].name))>>)>>,
                  err |-> FALSE]
          [] h[atom].kind = "string-atom" ->
                 [conds |->
                     IF Len(val) = 1 THEN <<Cond("_expect", <<CodeOf(val[1])>>)>>
                     ELSE <<Cond("_expectS",
                                 <<GoStringValue(DoubleQuoteStringEscape(
                                       SingleQuoteStringUnescape(Bytes(val))))>>)>>,
                  err |-> FALSE]
          [] h[atom].kind = "character-class-atom" ->
                 With(ParseCharacterClass(Bytes(val)),
                      LAMBDA r :
                          [conds |-> [i \in 1..Len(r.pairs) |->
                                         IF Len(r.pairs[i]) = 1
                                         THEN Cond("_expect", r.pairs[i])
                                         ELSE Cond("_expectR", r.pairs[i])],
                           err |-> r.err])
          [] OTHER -> [conds |-> <<>>, err |-> TRUE]

LookaheadItems == {"negative-lookahead-item", "positive-lookahead-item"}

\* genEnterCode on the items of a choice from the i-th on, `return true`,
\* and genLeaveCode closing what is open: the statements, the generator
\* after them, and whether an error was returned
RECURSIVE tokItemsCode(_, _, _, _)
tokItemsCode(h, items, i, g) ==
    IF i > Len(items) THEN [code |-> <<ReturnBool(TRUE)>>, g |-> g, err |-> FALSE]
    ELSE LET kind == h[items[i]].kind
             c == tokAtomCode(h, Child(h, items[i]))
             loop(ok) == For(<<SetBool(ok, FALSE),
                               IfAny(c.conds, <<SetBool(ok, TRUE)>>),
                               IfBool(ok, FALSE, <<Break>>)>>)
             then(gen, wrap(_)) ==
                 With(tokItemsCode(h, items, i + 1, gen),
                      LAMBDA r : [r EXCEPT !.code = wrap(r.code),
                                           !.err = r.err \/ c.err])
         IN  CASE kind = "atom-item" ->
                      then(g, LAMBDA rest : <<IfAny(c.conds, rest)>>)
               [] kind = "optional-item" ->
                      then(g, LAMBDA rest : <<IfAny(c.conds, <<>>)>> \o rest)
               [] kind = "repeat-0-item" ->
                      With(createVar(g, <<"o", "k">>),
                           LAMBDA ok : then(ok.g, LAMBDA rest :
                               <<loop(ok.name)>> \o rest))
               [] kind = "repeat-1-item" ->
                      With(createVar(g, <<"o", "k">>),
                           LAMBDA ok : then(ok.g, LAMBDA rest :
                               <<IfAny(c.conds, <<loop(ok.name)>> \o rest)>>))
               [] kind \in LookaheadItems ->
                      With(createVar(g, <<"p">>),
                           LAMBDA p : With(createVar(p.g, <<"o", "k">>),
                               LAMBDA ok : then(ok.g, LAMBDA rest :
                                   <<Mark(p.name), SetBool(ok.name, FALSE),
                                     IfAny(c.conds, <<SetBool(ok.name, TRUE)>>),
                                     Reset(p.name),
                                     IfBool(ok.name,
                                            kind = "positive-lookahead-item",
                                            rest)>>)))
               [] OTHER -> [code |-> <<Panic>>, g |-> g, err |-> FALSE]

\* the children of the choice that are no lookahead items
count(h, choice) ==
    Cardinality({k \in 1..Len(h[choice].children) :
                    h[h[choice].children[k]].kind \notin LookaheadItems})

\* Stage31.genTokenRuleCode: the method of the rule
genTokenRuleCode(h, rule) ==
    LET RECURSIVE choices(_, _, _, _)
        choices(i, g, posVarDefined, code) ==
            IF i > Len(h[rule].children)
            THEN [code |-> Append(code, ReturnBool(FALSE)), err |-> FALSE]
            ELSE LET choice == h[rule].children[i]
                     enter(gen) == tokItemsCode(h, h[choice].children, 1, gen)
                 IN  IF count(h, choice) <= 1
                     THEN With(enter(g),
                               LAMBDA r :
                                   IF r.err THEN [code |-> code, err |-> TRUE]
                                   ELSE choices(i + 1, r.g, posVarDefined,
                                                code \o r.code))
                     ELSE With(IF posVarDefined # <<>>
                               THEN [name |-> posVarDefined, g |-> g]
                               ELSE createVar(g, <<"p">>),
                               LAMBDA p : With(enter(p.g),
                                   LAMBDA r :
                                       IF r.err THEN [code |-> code, err |-> TRUE]
                                       ELSE choices(i + 1, r.g, p.name,
                                                code \o <<Mark(p.name)>> \o r.code
                                                     \o <<Reset(p.name)>>)))
    IN  With(choices(1, NewGen(reservedVariables), <<>>, <<>>),
             LAMBDA r : [fn |-> Func(SafeName(ToCamelCase(h[rule].name)),
                                     <<>>, r.code),
                         err |-> r.err])

\* Stage31.run: the methods of the token rules, and whether the stage has
\* an error
TokenMethods(l, h) ==
    [i \in 1..Len(l.tokenRules) |-> genTokenRuleCode(h, l.tokenRules[i])]

\* Tokenizer._expect, _expectR and _expectS: whether the call returned true,
\* and the tokenizer after it
_expect(t, r) ==
    IF r = RuneOf(t.lookahead) THEN [ok |-> TRUE, tk |-> _forward(t)]
    ELSE [ok |-> FALSE, tk |-> t]

_expectR(t, s, e) ==
    IF s <= RuneOf(t.lookahead) /\ e >= RuneOf(t.lookahead)
    THEN [ok |-> TRUE, tk |-> _forward(t)]
    ELSE [ok |-> FALSE, tk |-> t]

_expectS(t, s) ==
    LET pos == t.pos
        RECURSIVE loop(_, _)
        loop(i, now) ==
            IF i >= Len(s) THEN [ok |-> TRUE, tk |-> now]
            ELSE IF s[i + 1] = RuneOf(now.lookahead) THEN loop(i + 1, _forward(now))
            ELSE [ok |-> FALSE, tk |-> _reset(now, pos)]
    IN  loop(0, t)

\* Go's execution of the statements of a method from the i-th on: fr holds
\* the variables, the tokenizer, where control goes and what is returned.
\* Each call of a method is written to tk.tries with the position and the
\* lookahead at its entry and at its return.
RECURSIVE execToken(_, _, _, _)
execToken(fns, body, i, fr) ==
    IF i > Len(body) \/ fr.flow # "next" THEN fr
    ELSE LET s == body[i]
             method(name, t) ==
                 LET f == fns[Min({k \in 1..Len(fns) : fns[k].name = name})]
                     id == Len(t.tries) + 1
                     begun == [t EXCEPT !.tries = Append(@,
                                  [fn |-> name, top |-> fr.top, ok |-> FALSE,
                                   at |-> t.pos, lookahead |-> t.lookahead,
                                   end |-> t.pos, left |-> t.lookahead])]
                 IN  With(execToken(fns, f.body, 1,
                                    [env |-> <<>>, tk |-> begun, flow |-> "next",
                                     returned |-> FALSE, top |-> FALSE]),
                          LAMBDA r :
                              [ok |-> r.returned,
                               tk |-> [r.tk EXCEPT
                                          !.tries[id].ok = r.returned,
                                          !.tries[id].end = r.tk.pos,
                                          !.tries[id].left = r.tk.lookahead]])
             one(c, t) ==
                 CASE c.fn = "_expect" -> _expect(t, c.args[1])
                   [] c.fn = "_expectR" -> _expectR(t, c.args[1], c.args[2])
                   [] c.fn = "_expectS" -> _expectS(t, c.args[1])
                   [] c.fn = "method" -> method(c.args[1], t)
             RECURSIVE any(_, _)
             any(k, t) ==
                 IF k > Len(s.conds) THEN [ok |-> FALSE, tk |-> t]
                 ELSE With(one(s.conds[k], t),
                           LAMBDA r : IF r.ok THEN r ELSE any(k + 1, r.tk))
             RECURSIVE loop(_)
             loop(f) ==
                 With(execToken(fns, s.body, 1, f),
                      LAMBDA r : IF r.flow = "next" THEN loop(r)
                                 ELSE IF r.flow = "break"
                                 THEN [r EXCEPT !.flow = "next"] ELSE r)
         IN  With(CASE s.op = "mark" ->
                           [fr EXCEPT !.env = MapPut(@, s.var, _mark(fr.tk))]
                    [] s.op = "reset" ->
                           [fr EXCEPT !.tk = _reset(@, fr.env[s.var])]
                    [] s.op = "bool" ->
                           [fr EXCEPT !.env = MapPut(@, s.var, s.val)]
                    [] s.op = "if-bool" ->
                           IF fr.env[s.var] = s.val
                           THEN execToken(fns, s.body, 1, fr) ELSE fr
                    [] s.op = "if-any" ->
                           With(any(1, fr.tk),
                                LAMBDA r :
                                    IF r.ok
                                    THEN execToken(fns, s.body, 1,
                                                   [fr EXCEPT !.tk = r.tk])
                                    ELSE [fr EXCEPT !.tk = r.tk])
                    [] s.op = "for" -> loop(fr)
                    [] s.op = "break" -> [fr EXCEPT !.flow = "break"]
                    [] s.op = "return-bool" ->
                           [fr EXCEPT !.flow = "return", !.returned = s.val]
                    [] OTHER -> [fr EXCEPT !.flow = "return"],
                  LAMBDA next : execToken(fns, body, i + 1, next))

TokenTypeEndOfFile == <<"T", "o", "k", "e", "n", "T", "y", "p", "e", "E", "n", "d", "O", "f", "F", "i", "l", "e">>

TokenTypeIdent == <<"T", "o", "k", "e", "n", "T", "y", "p", "e", "I", "d", "e", "n", "t">>

\* Stage31.genTokenizerNextCode: the names of the rules that next() tries,
\* in the order of the rules
genTokenizerNextCode(l, h) ==
    SelectSeq([i \in 1..Len(l.tokenRules) |-> h[l.tokenRules[i]].name],
              LAMBDA name : ~HasPrefix(name, <<"_">>))

\* Tokenizer.next with the branches of genTokenizerNextCode in place of
\* <next_placeholder>.  The characters of the texts are no whitespace and no
\* newline: whitespace() and newline() return false and consume nothing.
next(t, l, h, fns) ==
    LET names == genTokenizerNextCode(l, h)
        started == [t EXCEPT !.tries = <<>>]
        RECURSIVE branches(_, _)
        branches(k, now) ==
            IF k > Len(names)
            THEN op(now, genTokenizerOpCode(l))
            ELSE With(execToken(fns,
                          <<IfAny(<<Cond("method", <<SafeName(ToCamelCase(names[k]))>>)>>,
                                  <<ReturnBool(TRUE)>>)>>,
                          1, [env |-> <<>>, tk |-> now, flow |-> "next",
                              returned |-> FALSE, top |-> TRUE]),
                      LAMBDA r :
                          IF r.returned
                          THEN [r.tk EXCEPT !.kind = <<"T", "o", "k", "e", "n", "T", "y", "p", "e">> \o ToPascalCase(names[k])]
                          ELSE branches(k + 1, r.tk))
        token(now) ==
            LET val == SubSeq(now.buf, now.prevPos.Offset + 1, now.pos.Offset)
                kw == {i \in 1..Len(l.keywords) : l.keywords[i] = val}
            IN  IF now.panicked \/ now.kind = TokenTypeDummy THEN now
                ELSE [now EXCEPT
                         !.kind = IF @ = TokenTypeIdent /\ kw # {}
                                  THEN <<"T", "o", "k", "e", "n", "T", "y", "p", "e", "K", "w">> \o ToPascalCase(val) ELSE @,
                         !.prevPos = now.pos]
    IN  IF t.lookahead = EOF
        THEN token([_stepForward(started, EOF) EXCEPT !.kind = TokenTypeEndOfFile])
        ELSE With(branches(1, started), LAMBDA now : token(now))

\* the rules a spec may declare
\* t: '<' !'='      u: '<' '='      v: 'x'+ '=' | 'x'
\* w: [<-=]? 'x' &'<'               _h: '=='      e: _h* 'x'
TokenizerShapes ==
    LET lt == StringAtom(<<"'", "<", "'">>)
        eq == StringAtom(<<"'", "=", "'">>)
    IN  {Rule(<<"t">>, FALSE, <<Seq2(AtomItem(lt), Item("negative-lookahead-item", eq))>>),
         Rule(<<"u">>, FALSE, <<Two(lt, eq)>>),
         Rule(<<"v">>, FALSE, <<Seq2(Item("repeat-1-item", StrX), AtomItem(eq)), One(StrX)>>),
         Rule(<<"w">>, FALSE,
              <<Choice(<<Item("optional-item", Atom("character-class-atom", <<"[", "<", "-", "=", "]">>)),
                         AtomItem(StrX),
                         Item("positive-lookahead-item", lt)>>, <<>>)>>),
         Rule(<<"_", "h">>, FALSE, <<One(StringAtom(<<"'", "=", "=", "'">>))>>),
         Rule(<<"e">>, FALSE, <<Seq2(Item("repeat-0-item", NameAtom(<<"_", "h">>)), AtomItem(StrX))>>)}

\* the emitted package compiles: no method is declared twice, every method
\* called is declared, and stage 3 returned no error
Compiles(fns) ==
    /\ \A i \in 1..Len(fns) : ~fns[i].err
    /\ \A i, j \in 1..Len(fns) : fns[i].fn.name = fns[j].fn.name => i = j
    /\ \A n \in 1..Len(heap) :
          heap[n].kind = "name-atom" =>
              \E j \in 1..Len(fns) :
                  fns[j].fn.name = SafeName(ToCamelCase(heap[n].name))

\* the caller of Tokenizer.Parse: next() is called for the next token
CallNext ==
    /\ tk.made /\ ~tk.panicked
    /\ tk.kind # TokenTypeEndOfFile
    /\ tk.calls = 0 \/ tk.kind # TokenTypeDummy
    /\ \E fns \in {TokenMethods(lang, heap)} :
          /\ Compiles(fns)
          /\ tk' = next(tk, lang, heap, [i \in 1..Len(fns) |-> fns[i].fn])
    /\ UNCHANGED <<splitVars, runVars, langVars, cls, out, ast, ps>>

NextTokens ==
    \/ parseTokenRules(TokenizerShapes)
    \/ convertRules
    \/ MakeTokenizer
    \/ CallNext

SpecTokens == InitStage2 /\ [][NextTokens]_vars

\* the calls of methods that next() made itself in its last call
TopTries == SelectSeq(tk.tries, LAMBDA c : c.top)

\* C20: when the method of a token rule returns false, the position and the
\* lookahead of the tokenizer are those at the entry of the method, whatever
\* the shape of its choices; so every alternative that next() tries starts
\* where the token starts.
C20_FalseRestores ==
    tk.made =>
        /\ \A i \in 1..Len(tk.tries) :
              ~tk.tries[i].ok =>
                  /\ tk.tries[i].end = tk.tries[i].at
                  /\ tk.tries[i].left = tk.tries[i].lookahead
        /\ \A i \in 1..Len(TopTries) : TopTries[i].at = TopTries[1].at

----------------------------------------------------------------------------
(* The emitted parser on rules with lookahead items                        *)

\* r: &('a'? 'b') t='b' { t }      s: !('a'? 'b') t='a' { t }
\* k: &'a' t='a' { t }             n: !'a' t='b' { t }
\* g: &('a' 'b') t='a' { t }        h: &('a'? 'b' | 'a') t='b' { t }
LookShapes ==
    LET a == StringAtom(<<"'", "a", "'">>)
        b == StringAtom(<<"'", "b", "'">>)
        ab == Group(<<Seq2(Item("optional-item", a), AtomItem(b))>>)
        then(kind, atom, tok) ==
            Choice(<<Item(kind, atom), Labelled(<<"t">>, AtomItem(tok))>>, <<"t">>)
    IN  {Rule(<<"r">>, FALSE, <<then("positive-lookahead-item", ab, b)>>),
         Rule(<<"s">>, FALSE, <<then("negative-lookahead-item", ab, a)>>),
         Rule(<<"k">>, FALSE, <<then("positive-lookahead-item", a, a)>>),
         Rule(<<"n">>, FALSE, <<then("negative-lookahead-item", a, b)>>),
         Rule(<<"g">>, FALSE, <<then("positive-lookahead-item", Group(<<Two(a, b)>>), a)>>),
         Rule(<<"h">>, FALSE,
              <<then("positive-lookahead-item",
                     Group(<<Seq2(Item("optional-item", a), AtomItem(b)), One(a)>>),
                     b)>>)}

NextLook ==
    \/ parseGrammarRules(LookShapes)
    \/ convertRules
    \/ RunS31
    \/ genGrammarRules
    \/ MakeParser
    \/ CallRule
    \/ ResetParser

SpecLook == InitStage2 /\ [][NextLook]_vars

\* the runs of the statements of lookahead items
Lookaheads ==
    SelectSeq(ps.items, LAMBDA e : e.kind \in LookaheadItems)

\* C21: after the statements of a positive or negative lookahead item have
\* run, the position of the parser is the one marked before its atom was
\* parsed, whether the atom matched or not; the choice is left by break
\* exactly when the atom of a positive lookahead failed or the atom of a
\* negative lookahead matched.
C21_Lookahead ==
    ps.made =>
        \A i \in 1..Len(Lookaheads) :
            LET e == Lookaheads[i]
            IN  /\ e.end = e.at
                /\ (e.flow = "break") <=>
                       (IF e.kind = "positive-lookahead-item" THEN ~e.matched
                        ELSE e.matched)

----------------------------------------------------------------------------
(* The emitted parser on choices with the suffixes `[` and `]`             *)

\* r: 'a' [ 'b' ] c='a' { c }        s: 'a' [ x='b'? 'a' ] { x }
\* q: 'a' [ 'b' ] 'a' [ c='b' ] { c }
\* l: t=l [ 'a' ] { t } | 'b'        m: t=m 'a' [ 'b' ] { t } | 'b'
RegionShapes ==
    LET a == AtomItem(StringAtom(<<"'", "a", "'">>))
        b == AtomItem(StringAtom(<<"'", "b", "'">>))
        open(item) == Suffixed(item, "[")
        close(item) == Suffixed(item, "]")
        rec(name) == Labelled(<<"t">>, AtomItem(NameAtom(name)))
    IN  {Rule(<<"r">>, FALSE, <<Choice(<<open(a), close(b), Labelled(<<"c">>, a)>>, <<"c">>)>>),
         Rule(<<"s">>, FALSE,
              <<Choice(<<open(a),
                         Labelled(<<"x">>, Item("optional-item", StringAtom(<<"'", "b", "'">>))),
                         close(a)>>, <<"x">>)>>),
         Rule(<<"q">>, FALSE,
              <<Choice(<<open(a), close(b), open(a), close(Labelled(<<"c">>, b))>>, <<"c">>)>>),
         Rule(<<"l">>, FALSE, <<Choice(<<open(rec(<<"l">>)), close(a)>>, <<"t">>), Choice(<<b>>, <<>>)>>),
         Rule(<<"m">>, FALSE, <<Choice(<<rec(<<"m">>), open(a), close(b)>>, <<"t">>), Choice(<<b>>, <<>>)>>)}

NextRegion ==
    \/ parseGrammarRules(RegionShapes)
    \/ convertRules
    \/ RunS31
    \/ genGrammarRules
    \/ MakeParser
    \/ CallRule
    \/ ResetParser

SpecRegion == InitStage2 /\ [][NextRegion]_vars

\* the calls of _enter and _leave made in the call with index id
RegionsIn(id) == SelectSeq(ps.regions, LAMBDA e : e.self = id)

\* the statements a suffix `[` and its `]` put around the items between them
IsRegion(body, i) ==
    /\ i + 3 <= Len(body)
    /\ body[i].op = "bool" /\ body[i].val
    /\ body[i + 1] = Enter
    /\ body[i + 2].op = "for"
    /\ LET in == body[i + 2].body
       IN  /\ Len(in) >= 2
           /\ in[Len(in) - 1] = SetBool(body[i].var, FALSE)
           /\ in[Len(in)] = Break
    /\ i + 4 <= Len(body)
    /\ body[i + 3] = Leave
    /\ body[i + 4] = IfBool(body[i].var, TRUE, <<Break>>)

\* the bodies of the `for {` of the choices of the emitted functions
ChoiceBodies ==
    UNION {{out[k].body[i].body :
               i \in {j \in 1..Len(out[k].body) : out[k].body[j].op = "for"}} :
           k \in 1..Len(out)}

\* C22: for a choice with an item with the suffix `[` and a later item with
\* the suffix `]`, the emitted code calls ps._enter() and then ps._leave()
\* exactly once before the choice is left, whether the items between them
\* match or fail; ps._leave() is never called without ps._enter() before it,
\* and when an item between them fails the choice is left after _leave().
C22_EnterLeave ==
    /\ pc = "s33" =>
          \A body \in ChoiceBodies :
              \A i \in 1..Len(body) :
                  /\ body[i] = Enter => IsRegion(body, i - 1)
                  /\ body[i] = Leave => i > 3 /\ IsRegion(body, i - 3)
                  /\ body[i].op \notin {"}", "for {"}
    /\ ps.made =>
          \A id \in 1..Len(ps.calls) :
              LET es == RegionsIn(id)
              IN  /\ Len(es) % 2 = 0
                  /\ \A k \in 1..Len(es) :
                        es[k].op = IF k % 2 = 1 THEN "enter" ELSE "leave"

----------------------------------------------------------------------------
(* The emitted parser on separated repeats                                 *)

\* p: x='b'.'a'+ { x }       z: x='b'.'a'* { x }       w: 'b'.'a'+ y='b' { y }
SepShapes ==
    LET a == StringAtom(<<"'", "a", "'">>)
        b == StringAtom(<<"'", "b", "'">>)
    IN  {Rule(<<"p">>, FALSE,
              <<Choice(<<Labelled(<<"x">>, SepItem("separated-repeat-1-item", b, a))>>, <<"x">>)>>),
         Rule(<<"z">>, FALSE,
              <<Choice(<<Labelled(<<"x">>, SepItem("separated-repeat-0-item", b, a))>>, <<"x">>)>>),
         Rule(<<"w">>, FALSE,
              <<Choice(<<SepItem("separated-repeat-1-item", b, a),
                         Labelled(<<"y">>, AtomItem(b))>>, <<"y">>)>>)}

NextSep ==
    \/ parseGrammarRules(SepShapes)
    \/ convertRules
    \/ RunS31
    \/ genGrammarRules
    \/ MakeParser
    \/ CallRule
    \/ ResetParser

SpecSep == InitStage2 /\ [][NextSep]_vars

\* the token at the position pos is the string v
TokenIs(pos, v) == pos + 1 <= Len(ps.tokens) /\ ps.tokens[pos + 1].Value = v

\* the number of items a of the longest a b a ... b a that starts at pos
RECURSIVE Matched(_)
Matched(pos) ==
    IF ~TokenIs(pos, <<"a">>) THEN 0
    ELSE IF TokenIs(pos + 1, <<"b">>) /\ TokenIs(pos + 2, <<"a">>) THEN 1 + Matched(pos + 2)
    ELSE 1

\* NewNodesNode of the nodes of the n items that start at pos
NodesFrom(pos, n) ==
    CallEmitted(NodesNodeStruct, <<[i \in 1..n |-> TokenNodeAt(pos + 2 * (i - 1))]>>).ret

\* C23: `sep.item+` and `sep.item*` parse an item and then separator and
\* item again; the loop ends at a separator that fails, and an item that
\* fails after a separator leaves the position at the mark before that
\* separator, so the separator is not consumed.  The value is NewNodesNode of
\* the items in order without the separators; a first item that fails makes
\* the choice fail for `+`, and gives the empty list for `*`.
C23_SeparatedRepeat ==
    ps.made =>
        \A id \in 1..Len(ps.calls) :
            LET c == ps.calls[id]
                n == Matched(c.at)
                after == IF n = 0 THEN c.at ELSE c.at + 2 * n - 1
            IN  /\ c.fn = <<"p">> =>
                       /\ c.value = IF n = 0 THEN NilNode ELSE NodesFrom(c.at, n)
                       /\ c.end = after
                /\ c.fn = <<"z">> =>
                       /\ c.value = NodesFrom(c.at, n)
                       /\ c.end = after
                /\ c.fn = <<"w">> =>
                       IF n > 0 /\ TokenIs(after, <<"b">>)
                       THEN c.value = TokenNodeAt(after) /\ c.end = after + 1
                       ELSE c.value = NilNode /\ c.end = c.at

\* p() on a b a has taken both items and no separator into its value
C23_Witness ==
    /\ ps.made /\ Len(ps.calls) = 1
    /\ Len(ps.tokens) = 4
    /\ ps.tokens[1].Value = <<"a">> /\ ps.tokens[2].Value = <<"b">>
    /\ ps.tokens[3].Value = <<"a">>
    /\ ps.calls[1].fn = <<"p">> /\ ps.calls[1].at = 0 /\ ps.calls[1].end = 3
    /\ ps.calls[1].value = NodesFrom(0, 2)
    /\ ps.calls[1].value.fields[1] = <<TokenNodeAt(0), TokenNodeAt(2)>>

----------------------------------------------------------------------------
(* next() of a tokenizer with token rules, keywords and operators          *)

\* the rules, keywords and operators a spec may declare
\* ident: 'x'+      lt: '<'      _u: 'x'
IdentShapes ==
    {Rule(<<"i", "d", "e", "n", "t">>, FALSE, <<Choice(<<Item("repeat-1-item", StrX)>>, <<>>)>>),
     Rule(<<"l", "t">>, FALSE, <<One(StringAtom(<<"'", "<", "'">>))>>),
     Rule(<<"_", "u">>, FALSE, <<One(StrX)>>)}

IdentWords == {<<"x">>, <<"x", "x">>}

IdentOps == {<<"<", "=">>, <<"=">>}

NextNext ==
    \/ parseTokenRules(IdentShapes)
    \/ parseKeywords(IdentWords)
    \/ parseOperators(IdentOps)
    \/ convertRules
    \/ MakeTokenizer
    \/ CallNext

SpecNext == InitStage2 /\ [][NextNext]_vars

\* next() has returned or panicked
HasReturned == tk.made /\ (tk.panicked \/ tk.calls > 0 \/ tk.kind # TokenTypeDummy)

\* the kind of a token of the rule name with the text val
KindOf(name, val) ==
    IF name = <<"i", "d", "e", "n", "t">> /\ val \in lang.keywordMap
    THEN <<"T", "o", "k", "e", "n", "T", "y", "p", "e", "K", "w">> \o ToPascalCase(val)
    ELSE <<"T", "o", "k", "e", "n", "T", "y", "p", "e">> \o ToPascalCase(name)

\* C24: next() tries the end of the text, then the methods of the token rules
\* whose name does not start with `_` in the order of their declaration, then
\* op(); the first that matches gives the kind, and when none matches next()
\* returns an error.  An ident whose text is a keyword has the kind of the
\* keyword, and no token of another kind is changed.
C24_NextOrder ==
    HasReturned =>
        LET names == SelectSeq([i \in 1..Len(lang.tokenRules) |->
                                   heap[lang.tokenRules[i]].name],
                               LAMBDA name : name[1] # "_")
            tops == TopTries
            n == Len(tops)
        IN  /\ ~tk.panicked
            /\ n <= Len(names)
            /\ \A i \in 1..n :
                  /\ tops[i].fn = SafeName(ToCamelCase(names[i]))
                  /\ i < n => ~tops[i].ok
            /\ IF tk.kind = TokenTypeEndOfFile
               THEN n = 0 /\ tk.pos.Offset = Len(tk.buf) + 1
               ELSE IF n > 0 /\ tops[n].ok
               THEN tk.kind = KindOf(names[n],
                                     SubSeq(tk.buf, tops[1].at.Offset + 1,
                                            tk.pos.Offset))
               ELSE /\ n = Len(names)
                    /\ tk.calls > 0
                    /\ tk.kind \in {TokenTypeDummy}
                                   \cup {OpKindName(lang.operatorMap[o]) :
                                            o \in {lang.operators[i] :
                                                     i \in 1..Len(lang.operators)}}

----------------------------------------------------------------------------
(* The constants of the emitted module                                     *)

\* Stage4.constNodeTypes
constNodeTypes(l) ==
    LET nodeTypes == <<<<"d", "u", "m", "m", "y">>, <<"t", "o", "k", "e", "n">>, <<"n", "o", "d", "e", "s">>>>
                     \o [i \in 1..Len(l.astNodes) |-> l.astNodes[i].name]
    IN  [i \in 1..Len(nodeTypes) |->
            Const(<<"N", "o", "d", "e", "T", "y", "p", "e">> \o ToPascalCase(nodeTypes[i]), nodeTypes[i])]

\* the token rules, keywords, operators and nodes a spec may declare
ConstTokenShapes ==
    {Rule(name, FALSE, <<One(StrX)>>) :
        name \in {<<"i", "d">>, <<"w", "h", "i", "t", "e", "s", "p", "a", "c", "e">>, <<"k", "w", "_", "i", "f">>, <<"o", "p", "_", "l", "e", "s", "s">>, <<"_", "h">>}}

ConstKeywords == {<<"i", "f">>}

ConstOps == {<<"<">>}

ConstNodes == {[name |-> <<"e", "x", "p", "r">>, args |-> <<<<"a">>>>],
               [name |-> <<"t", "o", "k", "e", "n">>, args |-> <<<<"a">>>>]}

\* Stage4.run: the constants of the node types and of the token types are put
constTypes ==
    /\ pc = "s31"
    /\ out = <<>>
    /\ \E order \in IterationOrders(lang.operatorMap) :
          out' = <<[nodeTypes |-> constNodeTypes(lang),
                    tokenTypes |-> constTokenTypes(lang, heap, order)]>>
    /\ UNCHANGED <<splitVars, runVars, langVars, cls, tk, ast, ps>>

NextConst ==
    \/ parseTokenRules(ConstTokenShapes)
    \/ parseKeywords(ConstKeywords)
    \/ parseOperators(ConstOps)
    \/ parseNodes(ConstNodes)
    \/ convertRules
    \/ constTypes

SpecConst == InitStage2 /\ [][NextConst]_vars

\* the names of the constants of a list, in order
ConstNames(consts) == [i \in 1..Len(consts) |-> consts[i].const]

NoneTwice(list) == \A i, j \in 1..Len(list) : list[i] = list[j] => i = j

\* C25: every constant TokenType<Name> and NodeType<Name> of the emitted
\* module is declared once, whatever token rules, keywords, operators and
\* nodes stage 2 accepted.
C25_DeclaredOnce ==
    \A k \in 1..Len(out) :
        /\ NoneTwice(ConstNames(out[k].tokenTypes))
        /\ NoneTwice(ConstNames(out[k].nodeTypes))

----------------------------------------------------------------------------
(* The emitted parser on rules with a bracket ellipsis atom                *)

MaxBracketTokens == 4

\* s: t='('...')' { t }       c: t='{'...'}' { t }
BracketShapes ==
    {Rule(<<"s">>, FALSE,
          <<Choice(<<Labelled(<<"t">>, AtomItem(Atom("bracket-ellipsis-atom", <<"'", "(", "'", ".", ".", ".", "'", ")", "'">>)))>>, <<"t">>)>>),
     Rule(<<"c">>, FALSE,
          <<Choice(<<Labelled(<<"t">>, AtomItem(Atom("bracket-ellipsis-atom", <<"'", "{", "'", ".", ".", ".", "'", "}", "'">>)))>>, <<"t">>)>>)}

\* the texts of the tokens of a file: brackets, and the first two and the
\* last two characters of the atom `'('...')'`
BracketTexts == {<<"(">>, <<")">>, <<"'", "(">>, <<")", "'">>}

BracketTokenLists ==
    {ts \o <<EndOfFile>> :
        ts \in UNION {[1..n -> {Token(<<"p", "s", "e", "u", "d", "o">>, v) : v \in BracketTexts}] :
                         n \in 0..MaxBracketTokens}}

\* NewParser on the tokens of a file with brackets
MakeBracketParser ==
    /\ pc = "s33"
    /\ ~ps.made
    /\ Builds(out)
    /\ \E tokens \in BracketTokenLists : ps' = NewParser(tokens)
    /\ UNCHANGED <<splitVars, runVars, langVars, cls, tk, out, ast>>

NextBracket ==
    \/ parseGrammarRules(BracketShapes)
    \/ convertRules
    \/ RunS31
    \/ genGrammarRules
    \/ MakeBracketParser
    \/ CallRule

SpecBracket == InitStage2 /\ [][NextBracket]_vars

\* the depth after the tokens from..to (0-based, to excluded) of a scan that
\* starts at depth 0, counts open up and close down
RECURSIVE DepthAt(_, _, _, _)
DepthAt(from, to, open, close) ==
    IF to <= from THEN 0
    ELSE DepthAt(from, to - 1, open, close)
         + (IF ps.tokens[to].Value = open THEN 1
            ELSE IF ps.tokens[to].Value = close THEN -1 ELSE 0)

\* the positions after a close that brings the depth of a scan from at to 0
Closes(at, open, close) ==
    {e \in (at + 1)..(Len(ps.tokens) - 1) :
        /\ DepthAt(at, e, open, close) = 0
        /\ \A k \in (at + 1)..(e - 1) : DepthAt(at, k, open, close) > 0}

\* a call of the function of s that scanned for open and close did what the
\* scanner is to do
Scanned(c, open, close) ==
    IF ps.tokens[c.at + 1].Value # open
    THEN c.value = NilNode /\ c.end = c.at
    ELSE \A e \in Closes(c.at, open, close) :
            /\ c.end = e
            /\ c.value = _pseudoToken(TokenNodeAt(c.at), TokenNodeAt(e - 1))

\* C26: the scanner of `'('...')'` matches only when the text of the current
\* token is `(`; it then takes tokens, the depth starting at 1, one up for
\* every `(` and one down for every `)`, stops after the `)` that brings the
\* depth to 0 and binds the pseudo token from the `(` to that `)`; when the
\* `(` is absent it takes nothing.
C26_BracketScan ==
    ps.made =>
        \A i \in 1..Len(ps.calls) :
            ps.calls[i].fn = <<"s">> => Scanned(ps.calls[i], <<"(">>, <<")">>)

----------------------------------------------------------------------------
(* langparse.BaseParser, and the string atoms of the two DSL parsers       *)

\* NewBaseParser on the snippet of content from start to the offset end; the
\* byte 0 that lookahead() sets at the end of the snippet is EOF.  marks is
\* the record of the positions that the callers of mark() hold.
lookahead(p) ==
    [p EXCEPT !.la = IF p.pos.Offset >= p.End THEN EOF
                     ELSE p.content[p.pos.Offset + 1]]

NewBaseParser(content, start, end) ==
    lookahead([made |-> TRUE, content |-> content, End |-> end,
               pos |-> start, max |-> start, la |-> EOF, marks |-> {}])

reachEnd(p) == p.la = EOF

\* the mutant of stepForward: max follows pos
stepForwardMaxIsPos(p) ==
    IF p.la = EOF THEN p
    ELSE LET moved == lookahead([p EXCEPT !.pos.Offset = @ + 1])
             at == IF p.la = NL
                   THEN [moved.pos EXCEPT !.LineIdx = @ + 1, !.CharIdx = 0]
                   ELSE [moved.pos EXCEPT !.CharIdx = @ + 1]
         IN  [moved EXCEPT !.pos = at, !.max = at]

stepForward(p) ==
    IF p.la = EOF THEN p
    ELSE LET moved == lookahead([p EXCEPT !.pos.Offset = @ + 1])
             at == IF p.la = NL
                   THEN [moved.pos EXCEPT !.LineIdx = @ + 1, !.CharIdx = 0]
                   ELSE [moved.pos EXCEPT !.CharIdx = @ + 1]
         IN  [moved EXCEPT !.pos = at,
                           !.max = IF at.Offset > p.max.Offset THEN at ELSE @]

mark(p) == p.pos

reset(p, pos) == lookahead([p EXCEPT !.pos = pos])

expect(p, v) ==
    IF v = p.la THEN [ok |-> TRUE, p |-> stepForward(p)]
    ELSE [ok |-> FALSE, p |-> p]

\* forwardUtil: breakFn is called with what its closure holds and the
\* lookahead, and answers with brk and with what the closure holds then
RECURSIVE forwardUtil(_, _, _)
forwardUtil(p, breakFn(_, _), held) ==
    IF reachEnd(p) THEN p
    ELSE With(breakFn(held, p.la),
              LAMBDA r : IF r.brk THEN p
                         ELSE forwardUtil(stepForward(p), breakFn, r.held))

expectString(p, s) ==
    LET pos == mark(p)
        RECURSIVE each(_, _)
        each(i, now) ==
            IF i > Len(s) THEN [ok |-> TRUE, p |-> now]
            ELSE With(expect(now, s[i]),
                      LAMBDA r : IF r.ok THEN each(i + 1, r.p)
                                 ELSE [ok |-> FALSE, p |-> reset(r.p, pos)])
    IN  each(1, p)

\* expectError: the line and the column the message names, and the text of
\* the line from max on
expectError(p, expected) ==
    LET rest == SubSeq(p.content, p.max.Offset + 1, Len(p.content))
        idx == {i \in 1..Len(rest) : rest[i] = NL}
    IN  [expected |-> expected,
         line |-> p.max.LineIdx + 1,
         column |-> p.max.CharIdx + 1,
         text |-> IF idx = {} THEN rest ELSE SubSeq(rest, 1, Min(idx) - 1)]

\* GrammarParser.parseStringAtom: the closure holds prev
GrammarParser_parseStringAtom(p) ==
    LET start == mark(p)
        breakFn(prev, b) == [brk |-> prev # "\\" /\ b = "'", held |-> b]
    IN  With(expect(forwardUtil(stepForward(p), breakFn, EOF), "'"),
             LAMBDA r : [err |-> ~r.ok, start |-> start, end |-> mark(r.p), p |-> r.p])

\* TokenParser.parseStringAtom: the closure holds afterBackslash
TokenParser_parseStringAtom(p) ==
    LET start == mark(p)
        breakFn(afterBackslash, b) ==
            IF afterBackslash THEN [brk |-> FALSE, held |-> FALSE]
            ELSE IF b = "\\" THEN [brk |-> FALSE, held |-> TRUE]
            ELSE [brk |-> b = "'", held |-> FALSE]
    IN  With(expect(forwardUtil(stepForward(p), breakFn, FALSE), "'"),
             LAMBDA r : [err |-> ~r.ok, start |-> start, end |-> mark(r.p), p |-> r.p])

MaxStringLen == 5

\* the texts a string atom is parsed from: a quote, then quotes, backslashes
\* and letters
StringInputs ==
    {<<"'">> \o t : t \in UNION {[1..n -> {"'", "\\", "a"}] : n \in 0..(MaxStringLen - 1)}}

InitString ==
    /\ input \in StringInputs
    /\ lines = <<>>
    /\ s1 = NewStage1(<<>>)
    /\ pc = "langparse"
    /\ stagesRun = <<>>
    /\ s2Error = NewError
    /\ s3Error = <<NewError, NewError, NewError>>
    /\ s4 = [Error |-> NewError, Gen |-> <<>>]
    /\ ret = NoReturn
    /\ InitBack

\* parseAtom of the grammar parser, the lookahead being a quote
CallGrammarStringAtom ==
    /\ pc = "langparse"
    /\ \A i \in 1..Len(out) : out[i].fn # "GrammarParser"
    /\ \E r \in {GrammarParser_parseStringAtom(
                    NewBaseParser(input, NewPosition(0, 0, 0), Len(input)))} :
          out' = Append(out, [fn |-> "GrammarParser", err |-> r.err,
                              end |-> r.end.Offset])
    /\ UNCHANGED <<splitVars, runVars, langVars, cls, tk, ast, ps>>

\* parseAtom of the token parser, the lookahead being a quote
CallTokenStringAtom ==
    /\ pc = "langparse"
    /\ \A i \in 1..Len(out) : out[i].fn # "TokenParser"
    /\ \E r \in {TokenParser_parseStringAtom(
                    NewBaseParser(input, NewPosition(0, 0, 0), Len(input)))} :
          out' = Append(out, [fn |-> "TokenParser", err |-> r.err,
                              end |-> r.end.Offset])
    /\ UNCHANGED <<splitVars, runVars, langVars, cls, tk, ast, ps>>

NextString == CallGrammarStringAtom \/ CallTokenStringAtom

SpecString == InitString /\ [][NextString]_vars

\* the offset after the first quote of text, from the offset i on, that is
\* not escaped, a backslash escaping the one character after it; 0 when
\* there is none
RECURSIVE ClosingQuote(_, _)
ClosingQuote(text, i) ==
    IF i >= Len(text) THEN 0
    ELSE IF text[i + 1] = "\\" THEN ClosingQuote(text, i + 2)
    ELSE IF text[i + 1] = "'" THEN i + 1
    ELSE ClosingQuote(text, i + 1)

\* C27: each of the two parsers ends a string atom at the first quote after
\* the opening one that is not escaped, a backslash escaping the one
\* character after it, and reports an error when there is none; so the two
\* end every string atom at the same quote.
C27_SameClosingQuote ==
    \A i \in 1..Len(out) :
        LET end == ClosingQuote(input, 1)
        IN  IF end = 0 THEN out[i].err
            ELSE ~out[i].err /\ out[i].end = end

----------------------------------------------------------------------------
(* A character class from the text of a token rule to the emitted code     *)

\* TokenParser.parseCharacterClassAtom, the lookahead being `[`
TokenParser_parseCharacterClassAtom(p) ==
    LET start == mark(p)
        breakFn(held, b) == [brk |-> b = "]", held |-> held]
    IN  With(expect(forwardUtil(stepForward(p), breakFn, FALSE), "]"),
             LAMBDA r : [err |-> ~r.ok, start |-> start, end |-> mark(r.p), p |-> r.p])

MaxClassLen == 5

\* the texts a class is parsed from: `[`, then brackets, backslashes,
\* hyphens and letters
ClassInputs ==
    {<<"[">> \o t : t \in UNION {[1..n -> {"]", "\\", "-", "a"}] : n \in 0..(MaxClassLen - 1)}}

InitClass ==
    /\ input \in ClassInputs
    /\ lines = <<>>
    /\ s1 = NewStage1(<<>>)
    /\ pc = "langparse"
    /\ stagesRun = <<>>
    /\ s2Error = NewError
    /\ s3Error = <<NewError, NewError, NewError>>
    /\ s4 = [Error |-> NewError, Gen |-> <<>>]
    /\ ret = NoReturn
    /\ InitBack

\* stage 2: the token parser parses the atom; its error goes to the bag of
\* stage 2 and Run returns
parseCharacterClassAtom ==
    /\ pc = "langparse"
    /\ \E r \in {TokenParser_parseCharacterClassAtom(
                    NewBaseParser(input, NewPosition(0, 0, 0), Len(input)))} :
          /\ bp' = r.p
          /\ IF r.err
             THEN /\ s2Error' = AddError(s2Error, ErrorOf("parse"))
                  /\ pc' = "done"
                  /\ out' = out
             ELSE /\ s2Error' = s2Error
                  /\ pc' = "s31"
                  /\ out' = <<[text |-> SubSeq(input, r.start.Offset + 1, r.end.Offset)]>>
    /\ UNCHANGED <<splitVars, stagesRun, s3Error, s4, ret, lang, heap, parsed,
                   cls, tk, ast, ps>>

\* stage 3.1: genEnterCode on the atom calls ParseCharacterClass on the text
\* between the brackets; run adds the error it returns to the bag
genCharacterClassAtom ==
    /\ pc = "s31"
    /\ \E r \in {ParseCharacterClass(
                    Bytes(SubSeq(out[1].text, 2, Len(out[1].text) - 1)))} :
          IF r.panic
          THEN pc' = "panic" /\ UNCHANGED <<s3Error, out>>
          ELSE /\ pc' = "s32"
               /\ out' = Append(out, [pairs |-> r.pairs, err |-> r.err])
               /\ s3Error' = IF r.err
                             THEN [s3Error EXCEPT ![1] = AddError(@, ErrorOf("class"))]
                             ELSE s3Error
    /\ UNCHANGED <<splitVars, stagesRun, s2Error, s4, ret, langVars, cls, tk, ast, ps>>

NextClass == parseCharacterClassAtom \/ genCharacterClassAtom

SpecClass == InitClass /\ [][NextClass]_vars

\* C28: ParseCharacterClass returns items or an error on every text the
\* token parser takes for the body of a class and never faults, and the
\* error it returns is in the bag of the generator.
C28_NeverFaults ==
    /\ pc # "panic"
    /\ pc = "s32" =>
          /\ Len(out) = 2
          /\ out[2].err <=> Len(s3Error[1].errors) = 1
          /\ out[2].err => out[2].pairs = <<>>

----------------------------------------------------------------------------
(* A DSL parser at work: the operations of BaseParser in any order         *)

MaxContentLen == 3

BaseChars == {"a", "b", NL}

\* the contents of the files a snippet is taken from
BaseInputs == UNION {[1..n -> BaseChars] : n \in 0..MaxContentLen}

InitBase ==
    /\ input \in BaseInputs
    /\ lines = <<>>
    /\ s1 = NewStage1(<<>>)
    /\ pc = "langparse"
    /\ stagesRun = <<>>
    /\ s2Error = NewError
    /\ s3Error = <<NewError, NewError, NewError>>
    /\ s4 = [Error |-> NewError, Gen |-> <<>>]
    /\ ret = NoReturn
    /\ InitBack

baseFrame == <<splitVars, runVars, lang, heap, parsed, emitVars>>

\* a DSL parser is made on a snippet that starts the file
CallNewBaseParser ==
    /\ pc = "langparse" /\ ~bp.made
    /\ \E end \in 0..Len(input) :
          bp' = NewBaseParser(input, NewPosition(0, 0, 0), end)
    /\ UNCHANGED baseFrame

CallStepForward ==
    /\ pc = "langparse" /\ bp.made
    /\ bp' = stepForward(bp)
    /\ UNCHANGED baseFrame

CallExpect ==
    /\ pc = "langparse" /\ bp.made
    /\ \E v \in BaseChars : bp' = expect(bp, v).p
    /\ UNCHANGED baseFrame

CallExpectString ==
    /\ pc = "langparse" /\ bp.made
    /\ \E s \in [1..2 -> BaseChars] : bp' = expectString(bp, s).p
    /\ UNCHANGED baseFrame

\* forwardUtil up to the byte stop
CallForwardUtil ==
    /\ pc = "langparse" /\ bp.made
    /\ \E stop \in BaseChars :
          bp' = forwardUtil(bp, LAMBDA held, b : [brk |-> b = stop, held |-> held],
                            FALSE)
    /\ UNCHANGED baseFrame

\* the caller keeps the position that mark() returns
CallMark ==
    /\ pc = "langparse" /\ bp.made
    /\ bp' = [bp EXCEPT !.marks = @ \cup {mark(bp)}]
    /\ UNCHANGED baseFrame

\* reset to a position that mark() returned
CallReset ==
    /\ pc = "langparse" /\ bp.made
    /\ \E pos \in bp.marks : bp' = reset(bp, pos)
    /\ UNCHANGED baseFrame

\* the parser gives up: it returns the error of expectError
CallExpectError ==
    /\ pc = "langparse" /\ bp.made
    /\ out' = <<expectError(bp, "x")>>
    /\ pc' = "done"
    /\ UNCHANGED <<splitVars, stagesRun, s2Error, s3Error, s4, ret, langVars,
                   cls, tk, ast, ps>>

NextBase ==
    \/ CallNewBaseParser
    \/ CallStepForward
    \/ CallExpect
    \/ CallExpectString
    \/ CallForwardUtil
    \/ CallMark
    \/ CallReset
    \/ CallExpectError

SpecBase == InitBase /\ [][NextBase]_vars

\* the line and the column, from 1, of the byte at offset in the content
LineOf(offset) == CountNL(SubSeq(input, 1, offset)) + 1

ColumnOf(offset) ==
    offset - Max({0} \cup {i \in 1..offset : input[i] = NL}) + 1

\* C29: whatever operations a DSL parser has made, max is not before pos, pos
\* is not after the end of the snippet, the error of expectError names the
\* line and the column of max, and no operation moves max back.
C29_MaxAndPos ==
    /\ [](bp.made =>
             /\ bp.max.Offset >= bp.pos.Offset
             /\ bp.pos.Offset <= bp.End
             /\ pc = "done" =>
                   /\ out[1].line = bp.max.LineIdx + 1
                   /\ out[1].column = bp.max.CharIdx + 1
                   /\ out[1].line = LineOf(bp.max.Offset)
                   /\ out[1].column = ColumnOf(bp.max.Offset))
    /\ [][bp.made => bp'.max.Offset >= bp.max.Offset]_vars

\* the parser went to the second line, was reset to a mark on the first, and
\* gave up: the error names the second line
C29_Witness ==
    /\ bp.made /\ pc = "done"
    /\ bp.pos.Offset < bp.max.Offset
    /\ bp.pos.LineIdx = 0 /\ bp.max.LineIdx = 1
    /\ out[1].line = 2
    /\ bp.marks # {}

----------------------------------------------------------------------------
(* The variables of a generator between two calls of ClearVar              *)

MaxCreated == 4

\* the names CreateVar is called with
VarNames == {<<"p">>, <<"p", "1">>, <<"o", "k">>, <<"_">>}

InitVariables ==
    /\ input = <<>>
    /\ lines = <<>>
    /\ s1 = NewStage1(<<>>)
    /\ pc = "langgen"
    /\ stagesRun = <<>>
    /\ s2Error = NewError
    /\ s3Error = <<NewError, NewError, NewError>>
    /\ s4 = [Error |-> NewError, Gen |-> <<>>]
    /\ ret = NoReturn
    /\ InitBack

\* NewGenerator: the table of its VariableManager holds the reserved names;
\* calls is the record of the calls of CreateVar since the last ClearVar, and
\* cleared counts the calls of ClearVar
CallNewGenerator ==
    /\ pc = "langgen" /\ out = <<>>
    /\ out' = <<[g |-> NewGen(reservedVariables), calls |-> <<>>, cleared |-> 0]>>
    /\ UNCHANGED <<splitVars, runVars, langVars, cls, tk, ast, ps>>

CallCreateVar ==
    /\ pc = "langgen" /\ out # <<>>
    /\ Len(out[1].calls) < MaxCreated
    /\ \E s \in VarNames :
          \E v \in {createVar(out[1].g, s)} :
              out' = <<[out[1] EXCEPT !.g = v.g,
                                      !.calls = Append(@, [s |-> s, name |-> v.name])]>>
    /\ UNCHANGED <<splitVars, runVars, langVars, cls, tk, ast, ps>>

CallClearVar ==
    /\ pc = "langgen" /\ out # <<>>
    /\ out[1].calls # <<>>
    /\ out[1].cleared < 1
    /\ out' = <<[out[1] EXCEPT !.g = clearVar(@), !.calls = <<>>,
                               !.cleared = @ + 1]>>
    /\ UNCHANGED <<splitVars, runVars, langVars, cls, tk, ast, ps>>

NextVariables == CallNewGenerator \/ CallCreateVar \/ CallClearVar

SpecVariables == InitVariables /\ [][NextVariables]_vars

\* the names that the calls before the k-th returned
Returned(calls, k) == {calls[j].name : j \in 1..(k - 1)}

\* s, s1, s2, ... with the underscore in front: the i-th name tried for s
Tried(s, i) ==
    (IF s[1] = "_" THEN s ELSE <<"_">> \o s) \o (IF i = 0 THEN <<>> ELSE Itoa(i))

\* no call returned a name that an earlier call returned or that is
\* reserved, and the table holds the reserved names and those returned
FreshNames(calls, table) ==
    /\ \A k \in 1..Len(calls) :
          calls[k].name \notin Returned(calls, k) \cup reservedVariables
    /\ table = reservedVariables \cup Returned(calls, Len(calls) + 1)

====
